---- MODULE Spec2Model ----
(***************************************************************************)
(* Inventory valuation and movement ledger of the CRM server.              *)
(*                                                                         *)
(* The model follows server/routes_clean.ts (the HTTP handlers registered  *)
(* by the server entry point) running on server/storage-mongo.ts           *)
(* (MongoDBStorage), with the Mongoose schemas of shared/models.ts, and    *)
(* the costing and monitoring functions of the SQL DatabaseStorage that    *)
(* is kept beside it.                                                      *)
(*                                                                         *)
(*   Spec      the handlers and the storage functions                      *)
(*   ConcSpec  requests on one product, recorded while they overlap        *)
(*   StorageSpec  storage-level createInvoice calls, recorded likewise     *)
(*   CostSpec  the storage-level costing functions called directly         *)
(*   MonitorSpec  the low-stock query between stock writes and sales       *)
(*   AlertSpec the system alerts: created, listed and acknowledged         *)
(*   DbMonitorSpec  the low-moving-stock query of DatabaseStorage between  *)
(*             its product inserts and sales activities                    *)
(*   CrudSpec  the endpoints that take a path id, on either bson package   *)
(*   LedgerSpec  purchases, transfers and sales of a product, interleaved  *)
(*                                                                         *)
(* Modelling conventions                                                   *)
(*   - a handler or storage function that awaits several times is one step *)
(*     for each await, the response is given with the last step, and the   *)
(*     steps of two requests interleave: nothing in the code locks         *)
(*   - a JavaScript Number is an IEEE 754 binary64, with the rounding of   *)
(*     every operation; set = FALSE is the absent (undefined) optional     *)
(*     schema field                                                        *)
(*   - lastSaleDate is a logical clock value, 0 = absent; one tick of the  *)
(*     clock is one day                                                    *)
(*   - a database write that rejects is an input of the request (fault)    *)
(*   - the _id of a document is an ObjectId, here a small integer; a path  *)
(*     names a document by the 24 hex digits of its _id, a string of       *)
(*     characters; parseInt or Number of the string is a Number, which     *)
(*     Mongoose casts to the ObjectId of a query through its decimal       *)
(*     string: a CastError, but for a string of 12 characters under a      *)
(*     bson package older than 6, where it is an ObjectId no document has  *)
(*   - new Date() is read when the statement that holds it runs: the       *)
(*     lastSaleDate of an invoice line is the time its update was issued   *)
(*   - routes_clean.ts imports express, http, ./storage-mongo and bcrypt   *)
(*     only: insertProductSchema and insertInvoiceSchema are bound         *)
(*     nowhere, so the handlers that evaluate them throw a ReferenceError  *)
(*     inside their try block and answer 500                               *)
(*   - a deleted document keeps its slot, marked deleted: ids are never    *)
(*     used again                                                          *)
(***************************************************************************)
EXTENDS Integers, Sequences, FiniteSets, TLC

VARIABLES
    products,      \* Product collection: ProductIds -> product document
    transfers,     \* Transfer collection, in insertion order
    activities,    \* TechnicianActivity collection, in insertion order
    invoices,      \* Invoice collection, in insertion order
    now,           \* logical clock behind new Date()
    last,          \* the last completed request: operation, input, status, state before
    reqs,          \* the requests in flight, per worker
    epoch,         \* ConcSpec, StorageSpec: the state when the overlap began, the requests in it
    alerts,        \* SystemAlert collection, in insertion order
    bson,          \* major version of the bson package the build resolved
    rows           \* products table of the SQL DatabaseStorage: ProductIds -> row

vars == <<products, transfers, activities, invoices, now, last, reqs, epoch, alerts, bson, rows>>

----------------------------------------------------------------------------
(* Bounds *)

\* largest stock a product is created with
MaxStock == 2
\* largest quantity of a purchase, transfer or invoice line
MaxQty == 2
\* number of requests after which no request is made
MaxOps == 2

ProductIds == {1}
\* an ObjectId no product is ever created with
MissingId == Cardinality(ProductIds) + 1
RequestIds == ProductIds \cup {MissingId}
Locations == {"warehouse", "store"}
Quantities == 1..MaxQty

Max(a, b) == IF a >= b THEN a ELSE b
Min(a, b) == IF a <= b THEN a ELSE b
Abs(x) == IF x < 0 THEN -x ELSE x
Sign(x) == IF x < 0 THEN -1 ELSE 1

----------------------------------------------------------------------------
(* Natural numbers of any size, as sequences of limbs, least significant   *)
(* first                                                                    *)

\* bits of a limb
LimbBits == 15
Limb == 2 ^ LimbBits

\* number of bits of n
RECURSIVE Bits(_)
Bits(n) == IF n = 0 THEN 0 ELSE 1 + Bits(n \div 2)

Limb0(N, i) == IF i <= Len(N) THEN N[i] ELSE 0

\* the highest limb of N that is not 0, from limb i down; 0 when there is none
RECURSIVE TopLimb(_, _)
TopLimb(N, i) == IF i = 0 THEN 0 ELSE IF N[i] # 0 THEN i ELSE TopLimb(N, i - 1)

BigBits(N) ==
    LET t == TopLimb(N, Len(N))
    IN  IF t = 0 THEN 0 ELSE LimbBits * (t - 1) + Bits(N[t])

RECURSIVE BigMulFrom(_, _, _, _)
BigMulFrom(N, k, i, c) ==
    IF i > Len(N) THEN (IF c = 0 THEN <<>> ELSE <<c>>)
    ELSE LET v == N[i] * k + c
         IN  <<v % Limb>> \o BigMulFrom(N, k, i + 1, v \div Limb)

\* N * k, for 0 < k <= Limb
BigMul(N, k) == BigMulFrom(N, k, 1, 0)

RECURSIVE BigDivFrom(_, _, _, _)
BigDivFrom(N, d, i, r) ==
    IF i = 0 THEN [q |-> <<>>, r |-> r]
    ELSE LET v == r * Limb + N[i]
             rest == BigDivFrom(N, d, i - 1, v % d)
         IN  [q |-> Append(rest.q, v \div d), r |-> rest.r]

\* quotient and remainder of N by d, for 0 < d < Limb
BigDiv(N, d) == BigDivFrom(N, d, Len(N), 0)

RECURSIVE BigAddFrom(_, _, _, _)
BigAddFrom(X, Y, i, c) ==
    IF i > Max(Len(X), Len(Y)) THEN (IF c = 0 THEN <<>> ELSE <<c>>)
    ELSE LET v == Limb0(X, i) + Limb0(Y, i) + c
         IN  <<v % Limb>> \o BigAddFrom(X, Y, i + 1, v \div Limb)

BigAdd(X, Y) == BigAddFrom(X, Y, 1, 0)

RECURSIVE BigSubFrom(_, _, _, _)
BigSubFrom(X, Y, i, b) ==
    IF i > Len(X) THEN <<>>
    ELSE LET v == X[i] - Limb0(Y, i) - b
         IN  <<v % Limb>> \o BigSubFrom(X, Y, i + 1, IF v < 0 THEN 1 ELSE 0)

\* X - Y, for X >= Y
BigSub(X, Y) == BigSubFrom(X, Y, 1, 0)

RECURSIVE BigCmpFrom(_, _, _)
BigCmpFrom(X, Y, i) ==
    IF i = 0 THEN 0
    ELSE IF Limb0(X, i) < Limb0(Y, i) THEN -1
    ELSE IF Limb0(X, i) > Limb0(Y, i) THEN 1
    ELSE BigCmpFrom(X, Y, i - 1)

\* -1, 0 or 1 as X is less than, equal to or greater than Y
BigCmp(X, Y) == BigCmpFrom(X, Y, Max(Len(X), Len(Y)))

\* N * 2^g
BigShl(N, g) == [i \in 1..(g \div LimbBits) |-> 0] \o BigMul(N, 2 ^ (g % LimbBits))

\* N \div 2^t, and whether a 1 bit was shifted out
BigShr(N, t) ==
    LET a == t \div LimbBits
        d == BigDiv(SubSeq(N, a + 1, Len(N)), 2 ^ (t % LimbBits))
    IN  [q |-> d.q, sticky |-> d.r # 0 \/ \E i \in 1..a : N[i] # 0]

----------------------------------------------------------------------------
(* JavaScript Number: IEEE 754 binary64, round to nearest, ties to even.   *)
(* A number is [set, s, m, e]: the value s * m * 2^e with sign s, and m     *)
(* either 0 (then s = 1, e = 0) or of exactly MantissaBits bits. The sums,  *)
(* products and quotients of the model are far from the largest and the     *)
(* smallest exponent; -0 does not arise, NaN and Infinity arise from          *)
(* parseInt and Number only and enter no arithmetic.                          *)

\* bits of the significand of a binary64
MantissaBits == 53
MantissaLimbs == (MantissaBits + LimbBits - 1) \div LimbBits

\* the absent optional Number field
NoCost == [set |-> FALSE, s |-> 1, m |-> [i \in 1..MantissaLimbs |-> 0], e |-> 0]
Zero == [NoCost EXCEPT !.set = TRUE]

\* the binary64 nearest to s * (N / d) * 2^e
Round(s, N, d, e) ==
    IF BigBits(N) = 0 THEN Zero
    ELSE LET g == Max(0, MantissaBits + 1 + Bits(d) - BigBits(N))
             qr == BigDiv(BigShl(N, g), d)
             t == BigBits(qr.q) - (MantissaBits + 1)
             sh == BigShr(qr.q, t)
             h == BigDiv(sh.q, 2)
             up == h.r = 1 /\ (sh.sticky \/ qr.r # 0 \/ h.q[1] % 2 = 1)
             m == IF up THEN BigAdd(h.q, <<1>>) ELSE h.q
             over == BigBits(m) > MantissaBits
         IN  [set |-> TRUE, s |-> s,
              m |-> SubSeq(IF over THEN BigDiv(m, 2).q ELSE m, 1, MantissaLimbs),
              e |-> e - g + t + 1 + (IF over THEN 1 ELSE 0)]

IsZero(x) == BigBits(x.m) = 0

\* the Number of an integer k
Num(k) == Round(Sign(k), <<Abs(k) % Limb, Abs(k) \div Limb>>, 1, 0)

\* x + y
NumAdd(x, y) ==
    LET e == Min(x.e, y.e)
        X == BigShl(x.m, x.e - e)
        Y == BigShl(y.m, y.e - e)
    IN  IF IsZero(x) THEN y
        ELSE IF IsZero(y) THEN x
        ELSE IF x.s = y.s THEN Round(x.s, BigAdd(X, Y), 1, e)
        ELSE IF BigCmp(X, Y) >= 0 THEN Round(x.s, BigSub(X, Y), 1, e)
        ELSE Round(y.s, BigSub(Y, X), 1, e)

\* x * k, k an integer
NumMulInt(x, k) ==
    IF IsZero(x) \/ k = 0 THEN Zero
    ELSE Round(x.s * Sign(k), BigMul(x.m, Abs(k)), 1, x.e)

\* x / k, k an integer other than 0
NumDivInt(x, k) == Round(x.s * Sign(k), x.m, Abs(k), x.e)

\* x <= y
NumLeq(x, y) ==
    LET e == Min(x.e, y.e)
        c == BigCmp(BigShl(x.m, x.e - e), BigShl(y.m, y.e - e))
    IN  IF x.s # y.s THEN (x.s < y.s \/ (IsZero(x) /\ IsZero(y)))
        ELSE IF x.s = 1 THEN c <= 0 ELSE c >= 0

\* JavaScript truthiness of an optional Number field: undefined and 0 are falsy
Truthy(c) == c.set /\ ~IsZero(c)

NaN == [Zero EXCEPT !.s = 0]
Infinity == [Zero EXCEPT !.s = 0, !.e = 1]

\* the natural number written with the decimal digits ds followed by z
\* zeros, taken four digits at a time
RECURSIVE BigOfDecimal(_, _)
BigOfDecimal(ds, z) ==
    LET k == IF z > 0 THEN Min(z, 4) ELSE Min(Len(ds), 4)
        n == Len(ds) - k
        D(i) == IF i >= 1 THEN ds[n + i] ELSE 0
        low == D(k) + 10 * D(k - 1) + 100 * D(k - 2) + 1000 * D(k - 3)
        high == IF z > 0 THEN BigOfDecimal(ds, z - k) ELSE BigOfDecimal(SubSeq(ds, 1, n), 0)
    IN  IF z = 0 /\ ds = <<>> THEN <<0>>
        ELSE IF Len(high) = 0 THEN <<0>>
        ELSE IF z > 0 THEN BigMul(high, 10 ^ k)
        ELSE BigAdd(BigMul(high, 10 ^ k), <<low>>)

\* the Number of a decimal literal: the binary64 nearest to the digits ds
\* followed by z zeros, Infinity past the largest binary64
DecimalNumber(ds, z) ==
    LET Finite(x) == IF x.e + MantissaBits > 1024 THEN Infinity ELSE x
    IN  Finite(Round(1, BigOfDecimal(ds, z), 1, 0))

\* the characters of the hex digits, by value
HexDigits ==
    <<"0", "1", "2", "3", "4", "5", "6", "7", "8", "9", "a", "b", "c", "d", "e", "f">>
DigitValue(c) == CHOOSE v \in 0..15 : HexDigits[v + 1] = c

\* the decimal digits of the natural number N, four at a time; those of 0 are
\* none
RECURSIVE BigDigits(_)
BigDigits(N) ==
    LET d == BigDiv(N, 10000)
        four == <<d.r \div 1000, (d.r \div 100) % 10, (d.r \div 10) % 10, d.r % 10>>
    IN  IF BigBits(N) = 0 THEN <<>> ELSE BigDigits(d.q) \o four

\* the digits ds from the first that is not 0 on
Stripped(ds) ==
    LET j == CHOOSE j \in 1..(Len(ds) + 1) :
                /\ \A i \in 1..(j - 1) : ds[i] = 0
                /\ j = Len(ds) + 1 \/ ds[j] # 0
    IN  SubSeq(ds, j, Len(ds))

\* Number.prototype.toString() of NaN, Infinity or a non-negative integer:
\* every digit of an integer below 2^53, and past it the fewest digits that
\* read back as x, of their candidates the nearest to x (of two as near, the
\* even one); in full up to 21 digits, with an exponent past
NumberToString(x) ==
    LET Chars(t) == [i \in 1..Len(t) |-> HexDigits[t[i] + 1]]
        Decimal(ex) == IF ex < 10 THEN <<ex>>
                       ELSE IF ex < 100 THEN <<ex \div 10, ex % 10>>
                       ELSE <<ex \div 100, (ex \div 10) % 10, ex % 10>>
        \* the digits sig of a number of len digits in all
        Format(sig, len) ==
            IF len <= 21 THEN Chars(sig) \o [i \in 1..(len - Len(sig)) |-> "0"]
            ELSE <<HexDigits[sig[1] + 1]>>
                 \o (IF Len(sig) > 1 THEN <<".">> \o Chars(SubSeq(sig, 2, Len(sig)))
                     ELSE <<>>)
                 \o <<"e", "+">> \o Chars(Decimal(len - 1))
        \* the digits t up to the last that is not 0
        Significant(t) ==
            SubSeq(t, 1, CHOOSE j \in 1..Len(t) :
                            t[j] # 0 /\ \A i \in (j + 1)..Len(t) : t[i] = 0)
        \* the digits t raised by one in the last place
        Raised(t) ==
            LET nines == CHOOSE r \in 0..Len(t) :
                            /\ \A i \in (Len(t) - r + 1)..Len(t) : t[i] = 9
                            /\ r = Len(t) \/ t[Len(t) - r] # 9
                keep == Len(t) - nines
            IN  (IF keep = 0 THEN <<1>>
                 ELSE [i \in 1..keep |-> IF i = keep THEN t[i] + 1 ELSE t[i]])
                \o [i \in 1..nines |-> 0]
        Least(S) == CHOOSE j \in S : \A i \in S : j <= i
        \* how far the natural number T is from V
        Gap(V, T) == IF BigCmp(V, T) >= 0 THEN BigSub(V, T) ELSE BigSub(T, V)
        \* reads[j] are the candidates of j digits that read back as x: of
        \* the fewest digits, the candidate nearest to V
        Shortest(D, V, reads) ==
            LET k == Least({j \in 1..Len(D) : reads[j] # {}})
                z == Len(D) - k
                Nearer(t, u) ==
                    LET c == BigCmp(Gap(V, BigOfDecimal(t, z)), Gap(V, BigOfDecimal(u, z)))
                    IN  c < 0 \/ (c = 0 /\ t[Len(t)] % 2 = 0)
                Of(t) == Format(Significant(t), Len(t) + z)
            IN  Of(CHOOSE t \in reads[k] : \A u \in reads[k] \ {t} : Nearer(t, u))
        \* the first j of the digits D, as they are and raised
        Integer(D, V) ==
            Shortest(D, V, [j \in 1..Len(D) |->
                               {t \in {SubSeq(D, 1, j), Raised(SubSeq(D, 1, j))} :
                                   DecimalNumber(t, Len(D) - j) = x}])
        Digits(D, V) == IF BigBits(V) <= MantissaBits THEN Format(Significant(D), Len(D))
                        ELSE Integer(D, V)
        Whole(V) == Digits(Stripped(BigDigits(V)), V)
    IN  IF x = NaN THEN <<"N", "a", "N">>
        ELSE IF x = Infinity THEN <<"I", "n", "f", "i", "n", "i", "t", "y">>
        ELSE IF IsZero(x) THEN <<"0">>
        ELSE Whole(IF x.e >= 0 THEN BigShl(x.m, x.e) ELSE BigShr(x.m, -x.e).q)

----------------------------------------------------------------------------
(* Documents *)

\* the slot of a product id that has no document
NoProduct ==
    [exists |-> FALSE, deleted |-> FALSE, warehouseStock |-> 0, storeStock |-> 0,
     cost |-> NoCost, averageCost |-> NoCost, totalSold |-> 0, lastSaleDate |-> 0,
     minStockLevel |-> 0]

\* productSchema: a new Product document; totalSold defaults to 0, lastSaleDate,
\* cost and averageCost are optional
NewProduct(ws, ss, c, ac, msl) ==
    [NoProduct EXCEPT !.exists = TRUE, !.warehouseStock = ws, !.storeStock = ss,
                      !.cost = c, !.averageCost = ac, !.minStockLevel = msl]

\* Product.findById
getProduct(P, id) == IF id \in ProductIds THEN P[id] ELSE NoProduct

\* Product.findByIdAndUpdate(id, {...upd}): sets the fields named in upd and
\* leaves the others as stored; no document, no write
updateProduct(P, id, upd) ==
    IF getProduct(P, id).exists
    THEN [P EXCEPT ![id] =
            [f \in DOMAIN P[id] |-> IF f \in DOMAIN upd THEN upd[f] ELSE P[id][f]]]
    ELSE P

\* Product.findByIdAndDelete(id)
deleteProduct(P, id) ==
    IF getProduct(P, id).exists THEN [P EXCEPT ![id] = [NoProduct EXCEPT !.deleted = TRUE]]
    ELSE P

\* a Transfer document (transferSchema); id is its position in the collection
TransferDoc(id, r) ==
    [id |-> id, productId |-> r.productId, fromLocation |-> r.fromLocation,
     toLocation |-> r.toLocation, quantity |-> r.quantity, status |-> r.status,
     technicianName |-> r.technicianName, activityType |-> r.activityType,
     deleted |-> FALSE]

\* a stored document of a collection kept in insertion order
Stored(C, id) == id \in 1..Len(C) /\ ~C[id].deleted

\* findByIdAndUpdate(id, {...upd}) on a collection kept in insertion order
updateDoc(C, id, upd) ==
    IF Stored(C, id)
    THEN [C EXCEPT ![id] =
            [f \in DOMAIN C[id] |-> IF f \in DOMAIN upd THEN upd[f] ELSE C[id][f]]]
    ELSE C

\* findByIdAndDelete(id) on a collection kept in insertion order
deleteDoc(C, id) == IF Stored(C, id) THEN [C EXCEPT ![id].deleted = TRUE] ELSE C

\* Transfer.findByIdAndUpdate / findByIdAndDelete
updateTransfer(T, id, upd) == updateDoc(T, id, upd)
deleteTransfer(T, id) == deleteDoc(T, id)

\* an Invoice document (invoiceSchema): its lines; status defaults to 'pending'
InvoiceDoc(id, items) ==
    [id |-> id, items |-> items, status |-> "pending", deleted |-> FALSE]

\* Invoice.findByIdAndUpdate / findByIdAndDelete: no product is touched
updateInvoice(I, id, upd) == updateDoc(I, id, upd)
deleteInvoice(I, id) == deleteDoc(I, id)

\* a TechnicianActivity document (technicianActivitySchema)
ActivityDoc(tech, type, pid, q, tid) ==
    [technicianName |-> tech, activityType |-> type, productId |-> pid,
     quantity |-> q, transferId |-> tid]

----------------------------------------------------------------------------
(* MongoDBStorage *)

\* createTechnicianActivity: append one document
createTechnicianActivity(A, doc) == Append(A, doc)

\* createTransfer: the activity document written when the request names a
\* technician (activityType || 'transfer')
createTransferActivity(saved, r) ==
    ActivityDoc(r.technicianName,
                IF r.activityType # "" THEN r.activityType ELSE "transfer",
                r.productId, r.quantity, saved.id)

\* createTransfer, run alone: save the Transfer, then one TechnicianActivity
\* when the request names a technician. The activity write is awaited with no
\* try/catch: when it rejects (r.fault = "storage") the Transfer is already
\* saved and createTransfer throws.
createTransfer(T, A, r) ==
    LET saved == TransferDoc(Len(T) + 1, r)
        threw == r.technicianName # "" /\ r.fault = "storage"
    IN  [transfers |-> Append(T, saved),
         activities |->
            IF r.technicianName # "" /\ ~threw
            THEN createTechnicianActivity(A, createTransferActivity(saved, r))
            ELSE A,
         saved |-> saved,
         threw |-> threw]

\* one pass of createInvoice's loop writing counters computed from the product
\* document as it was when the first of the calls in flight began
incSaleStale(P, item, t) ==
    IF getProduct(P, item.productId).exists
    THEN updateProduct(P, item.productId,
            [storeStock |-> epoch.base[item.productId].storeStock - item.quantity,
             totalSold |-> epoch.base[item.productId].totalSold + item.quantity,
             lastSaleDate |-> t])
    ELSE P

\* one pass of createInvoice's loop taking the line's quantity off the store
\* twice
incSaleTwice(P, item, t) ==
    IF getProduct(P, item.productId).exists
    THEN updateProduct(P, item.productId,
            [storeStock |-> P[item.productId].storeStock - 2 * item.quantity,
             totalSold |-> P[item.productId].totalSold + item.quantity,
             lastSaleDate |-> t])
    ELSE P

\* one pass of createInvoice's loop: findByIdAndUpdate with $inc on storeStock
\* and totalSold and lastSaleDate = new Date(); atomic on the document, and
\* unconditional
incSale(P, item, t) ==
    IF getProduct(P, item.productId).exists
    THEN updateProduct(P, item.productId,
            [storeStock |-> P[item.productId].storeStock - item.quantity,
             totalSold |-> P[item.productId].totalSold + item.quantity,
             lastSaleDate |-> t])
    ELSE P

\* createInvoice, run alone: the effect of the whole item loop on the products
RECURSIVE createInvoice(_, _, _)
createInvoice(P, items, t) ==
    IF items = <<>> THEN P
    ELSE createInvoice(incSale(P, Head(items), t), Tail(items), t)

\* updateProductPrice: currentAverageCost = averageCost || cost || 0
currentAverageCost(product) ==
    IF Truthy(product.averageCost) THEN product.averageCost
    ELSE IF Truthy(product.cost) THEN product.cost
    ELSE Num(0)

\* updateProductPrice: the new weighted-average cost
newAverageCost(product, newCost, quantity) ==
    LET currentStock == product.warehouseStock + product.storeStock
    IN  IF currentStock > 0
        THEN NumDivInt(NumAdd(NumMulInt(currentAverageCost(product), currentStock),
                              Num(newCost * quantity)),
                       currentStock + quantity)
        ELSE Num(newCost)

\* updateProductPrice: the write, computed from the product document read
\* before it; sets averageCost and cost, no stock counter
priceWrite(P, id, product, newCost, quantity) ==
    updateProduct(P, id,
        [averageCost |-> newAverageCost(product, newCost, quantity),
         cost |-> Num(newCost)])

\* updateProductPrice, run alone
updateProductPrice(P, id, newCost, quantity) ==
    IF ~getProduct(P, id).exists THEN P
    ELSE priceWrite(P, id, getProduct(P, id), newCost, quantity)

----------------------------------------------------------------------------
(* DatabaseStorage (the SQL storage kept beside the MongoDB one) *)

\* calculateAveragePrice: currentCost = averageCost, else cost, else newCost;
\* the columns hold the Number's decimal string (toString, read back by
\* parseFloat, which gives the same Number), so "0" counts as present
calculateAveragePrice(product, newCost, newQuantity) ==
    LET currentStock == product.warehouseStock + product.storeStock
        currentCost == IF product.averageCost.set THEN product.averageCost
                       ELSE IF product.cost.set THEN product.cost
                       ELSE Num(newCost)
        totalValue == NumAdd(NumMulInt(currentCost, currentStock),
                             Num(newQuantity * newCost))
        totalQuantity == currentStock + newQuantity
    IN  IF totalQuantity > 0 THEN NumDivInt(totalValue, totalQuantity) ELSE Num(newCost)

\* getLowMovingStock with a sale made exactly at the cutoff counted as old
getLowMovingStockLte(P, t, daysSinceLastSale) ==
    LET cutoffDate == t - daysSinceLastSale
    IN  {p \in ProductIds :
            /\ P[p].exists
            /\ (P[p].lastSaleDate = 0 \/ P[p].lastSaleDate <= cutoffDate)
            /\ P[p].warehouseStock + P[p].storeStock > 0}

\* DatabaseStorage.getLowMovingStock: cutoffDate = now - daysSinceLastSale;
\* lastSaleDate IS NULL OR lastSaleDate < cutoffDate, AND total stock > 0.
\* One tick of the logical clock is one day.
getLowMovingStock(P, t, daysSinceLastSale) ==
    LET cutoffDate == t - daysSinceLastSale
    IN  {p \in ProductIds :
            /\ P[p].exists
            /\ (P[p].lastSaleDate = 0 \/ P[p].lastSaleDate < cutoffDate)
            /\ P[p].warehouseStock + P[p].storeStock > 0}

----------------------------------------------------------------------------
(* MongoDBStorage: stock monitor and system alerts *)

\* getLowStockProducts with $lte in place of $lt
getLowStockProductsLte(P) ==
    {p \in ProductIds :
        /\ P[p].exists
        /\ P[p].warehouseStock + P[p].storeStock <= P[p].minStockLevel}

\* getLowStockProducts: $expr $lt [warehouseStock + storeStock, minStockLevel]
getLowStockProducts(P) ==
    {p \in ProductIds :
        /\ P[p].exists
        /\ P[p].warehouseStock + P[p].storeStock < P[p].minStockLevel}

\* a SystemAlert document (systemAlertSchema): isRead defaults to false and
\* createdAt to the time the document is made; the id of an alert is its
\* position in the collection
AlertDoc(type, productId, priority, t) ==
    [type |-> type, productId |-> productId, priority |-> priority, isRead |-> FALSE,
     createdAt |-> t]

\* createAlert saving the alert as already read
createAlertRead(AL, type, productId, t) ==
    Append(AL, [AlertDoc(type, productId, "medium", t) EXCEPT !.isRead = TRUE])

\* createAlert(type, title, message, productId, referenceId, priority =
\* 'medium'): the document made at time t is saved, whatever the collection
\* holds
createAlert(AL, type, productId, t) == Append(AL, AlertDoc(type, productId, "medium", t))

\* getAlerts(isRead?): SystemAlert.find(query).sort({ createdAt: -1 }), the ids
\* of the alerts found, the latest made first (alerts made at the same time
\* come as the collection holds them); isRead is the list of the arguments
\* given, <<>> (undefined: the query {}, every alert) or <<b>> (the query
\* { isRead: b })
getAlerts(AL, isRead) ==
    LET found == {i \in 1..Len(AL) : isRead = <<>> \/ AL[i].isRead = isRead[1]}
        Before(i, j) ==
            \/ AL[i].createdAt > AL[j].createdAt
            \/ (AL[i].createdAt = AL[j].createdAt /\ i < j)
    IN  [k \in 1..Cardinality(found) |->
            CHOOSE i \in found : Cardinality({j \in found : Before(j, i)}) = k - 1]

\* markAlertAsRead that removes an alert acknowledged a second time
markAlertAsReadPurge(AL, alertId) ==
    IF alertId \in 1..Len(AL)
    THEN (IF AL[alertId].isRead
          THEN SubSeq(AL, 1, alertId - 1) \o SubSeq(AL, alertId + 1, Len(AL))
          ELSE [AL EXCEPT ![alertId].isRead = TRUE])
    ELSE AL

\* markAlertAsRead: findByIdAndUpdate(alertId, { isRead: true }); no document
\* with that id, no write and no error
markAlertAsRead(AL, alertId) ==
    IF alertId \in 1..Len(AL) THEN [AL EXCEPT ![alertId].isRead = TRUE] ELSE AL

----------------------------------------------------------------------------
(* The handlers of routes_clean.ts, as functions of the stored state *)

\* the names bound in routes_clean.ts: its imports (createServer, storage,
\* bcrypt) and its own declarations; evaluating any other free identifier
\* throws a ReferenceError
Bound(name) ==
    name \in {"createServer", "storage", "bcrypt", "registerRoutes", "httpServer"}

\* the 24 hex digits of the ObjectId n, as a path names it: a timestamp of
\* this decade, then the counter
Hex(n) ==
    <<"6", "5", "a", "1", "b", "2", "c", "3", "d", "4", "e", "5", "f", "6", "0", "7",
      "1", "8", "2", "9", "3", "a", HexDigits[(n \div 16) + 1], HexDigits[(n % 16) + 1]>>

\* the ObjectId with the 24 hex digits s; 0 for one that no document of the
\* server has
ByHex(s) ==
    LET n == 16 * DigitValue(s[23]) + DigitValue(s[24])
    IN  IF Len(s) # 24 \/ \E i \in 1..24 : \A v \in 0..15 : HexDigits[v + 1] # s[i] THEN 0
        ELSE IF n > 0 /\ Hex(n) = s THEN n
        ELSE 0

\* a path id that is the _id of no document: under both parseInt and Number it
\* is a number of 12 decimal digits
TwelveDigits ==
    <<"0", "0", "0", "0", "0", "0", "0", "0", "0", "0", "0", "0",
      "1", "2", "3", "4", "5", "6", "7", "8", "9", "0", "1", "2">>

\* parseInt(string) of a path id, a string of the characters 0-9 and a-f: the
\* Number of its leading decimal digits, NaN when there is none
parseInt(id) ==
    LET n == CHOOSE n \in 0..Len(id) :
                /\ \A i \in 1..n : DigitValue(id[i]) < 10
                /\ n = Len(id) \/ DigitValue(id[n + 1]) >= 10
    IN  IF n = 0 THEN NaN ELSE DecimalNumber([i \in 1..n |-> DigitValue(id[i])], 0)

\* Number(string) of a path id, a string of the characters 0-9 and a-f: the
\* whole string is a binary literal, 0b and binary digits, or a decimal
\* literal, digits or digits e digits, or it is NaN
Number(id) ==
    LET binary == /\ Len(id) >= 3 /\ id[1] = "0" /\ id[2] = "b"
                  /\ \A i \in 3..Len(id) : id[i] \in {"0", "1"}
        Bit(j) == IF j < Len(id) - 2 THEN DigitValue(id[Len(id) - j]) ELSE 0
        Bin(len) ==
            [k \in 1..len |->
                CHOOSE v \in 0..(Limb - 1) :
                    \A b \in 0..(LimbBits - 1) :
                        (v \div 2 ^ b) % 2 = Bit(LimbBits * (k - 1) + b)]
        Finite(x) == IF x.e + MantissaBits > 1024 THEN Infinity ELSE x
        es == {i \in 1..Len(id) : id[i] = "e"}
        e == IF es = {} THEN Len(id) + 1 ELSE CHOOSE i \in es : TRUE
        decimal == \A i \in (1..Len(id)) \ {e} : DigitValue(id[i]) < 10
        Value(a, b) == [i \in 1..(b - a + 1) |-> DigitValue(id[a + i - 1])]
        mantissa == Stripped(Value(1, e - 1))
        exponent == Stripped(Value(e + 1, Len(id)))
        z == IF exponent = <<>> THEN 0
             ELSE IF Len(exponent) = 1 THEN exponent[1]
             ELSE IF Len(exponent) = 2 THEN 10 * exponent[1] + exponent[2]
             ELSE 100 * exponent[1] + 10 * exponent[2] + exponent[3]
    IN  IF id = <<>> THEN Zero
        ELSE IF binary THEN Finite(Round(1, Bin((Len(id) + LimbBits) \div LimbBits), 1, 0))
        ELSE IF Cardinality(es) > 1 \/ e = 1 \/ e = Len(id) \/ ~decimal THEN NaN
        ELSE IF mantissa = <<>> THEN Zero
        ELSE IF Len(exponent) > 3 \/ Len(mantissa) + z > 309 THEN Infinity
        ELSE DecimalNumber(mantissa, z)

\* Mongoose casting the _id of a query, castObjectId(value): new
\* ObjectId(value.toString()). A string of 24 hex digits is the ObjectId they
\* write; a string of 12 characters is, before bson 6, the ObjectId of its 12
\* bytes; any other string throws. The decimal string of a Number has no 24
\* hex digits, and its 12 bytes begin with the code of a digit: a timestamp
\* of the last century.
castObjectId(value) ==
    LET Byte(c) == IF c = "." THEN <<"2", "e">>
                   ELSE IF c = "+" THEN <<"2", "b">>
                   ELSE IF c = "e" THEN <<"6", "5">>
                   ELSE <<"3", c>>
        Bytes(t) == [i \in 1..(2 * Len(t)) |-> Byte(t[(i + 1) \div 2])[2 - (i % 2)]]
        ObjectId(s) ==
            IF Len(s) = 24 /\ \A i \in 1..24 : \E v \in 0..15 : HexDigits[v + 1] = s[i]
            THEN [error |-> FALSE, id |-> ByHex(s)]
            ELSE IF Len(s) = 12 /\ bson < 6 THEN [error |-> FALSE, id |-> ByHex(Bytes(s))]
            ELSE [error |-> TRUE, id |-> 0]
    IN  ObjectId(NumberToString(value))

\* POST /api/products/:id/update-price: !cost || !quantity || !location
purchaseInvalid(r) == r.cost = 0 \/ r.quantity = 0 \/ r.location = ""

\* POST /api/products/:id/update-price: the stock update, computed from the
\* product document read before it; cost is written as cost.toString(), which
\* the schema casts back to the Number
purchaseWrite(P, productId, r, currentProduct) ==
    IF r.location = "warehouse"
    THEN updateProduct(P, productId,
            [warehouseStock |-> currentProduct.warehouseStock + r.quantity,
             cost |-> Num(r.cost)])
    ELSE IF r.location = "store"
    THEN updateProduct(P, productId,
            [storeStock |-> currentProduct.storeStock + r.quantity,
             cost |-> Num(r.cost)])
    ELSE P

\* POST /api/products/:id/update-price, the whole handler: productId is
\* parseInt(req.params.id), so storage.getProduct(productId) rejects and the
\* catch answers 500, or it finds no product and the handler answers 404; the
\* lines after it run on no product of the server
purchaseHandler(P, r) ==
    LET After(productId) ==
            IF productId.error THEN [products |-> P, status |-> 500]
            ELSE IF ~getProduct(P, productId.id).exists THEN [products |-> P, status |-> 404]
            ELSE [products |-> purchaseWrite(P, productId.id, r, getProduct(P, productId.id)),
                  status |-> 200]
    IN  IF purchaseInvalid(r) THEN [products |-> P, status |-> 400]
        ELSE After(castObjectId(parseInt(r.id)))

\* transferWrite that also counts a move out of the store as a sale
transferWriteCounted(P, t, product) ==
    IF t.fromLocation = "warehouse" /\ t.toLocation = "store"
    THEN updateProduct(P, t.productId,
            [warehouseStock |-> Max(0, product.warehouseStock - t.quantity),
             storeStock |-> product.storeStock + t.quantity])
    ELSE IF t.fromLocation = "store" /\ t.toLocation = "warehouse"
    THEN updateProduct(P, t.productId,
            [storeStock |-> Max(0, product.storeStock - t.quantity),
             warehouseStock |-> product.warehouseStock + t.quantity,
             totalSold |-> product.totalSold + t.quantity])
    ELSE P

\* POST /api/transfers: the stock update, computed from the product document
\* read before it
transferWrite(P, t, product) ==
    IF t.fromLocation = "warehouse" /\ t.toLocation = "store"
    THEN updateProduct(P, t.productId,
            [warehouseStock |-> Max(0, product.warehouseStock - t.quantity),
             storeStock |-> product.storeStock + t.quantity])
    ELSE IF t.fromLocation = "store" /\ t.toLocation = "warehouse"
    THEN updateProduct(P, t.productId,
            [storeStock |-> Max(0, product.storeStock - t.quantity),
             warehouseStock |-> product.warehouseStock + t.quantity])
    ELSE P

\* POST /api/transfers: the transfer moves stock between the two locations
transferMoves(t) ==
    \/ (t.fromLocation = "warehouse" /\ t.toLocation = "store")
    \/ (t.fromLocation = "store" /\ t.toLocation = "warehouse")

\* POST /api/transfers: if (transfer.technicianName && transfer.activityType)
transferRecords(t) == t.technicianName # "" /\ t.activityType # ""

\* POST /api/transfers: the handler's own activity record, written when the
\* saved transfer has both technicianName and activityType; a rejected write
\* (fails) is caught and logged, and the handler goes on
transferActivity(A, t, fails) ==
    IF transferRecords(t) /\ ~fails
    THEN createTechnicianActivity(A,
            ActivityDoc(t.technicianName, t.activityType, t.productId, t.quantity, t.id))
    ELSE A

\* the JSON body of an error response
ErrorBody(msg) == [error |-> msg]

\* POST /api/transfers, the whole handler run alone: status is forced to
\* "completed", the record is created first, the product is looked up after;
\* an exception of createTransfer ends in the outer catch (500); the success
\* body is the saved transfer document
transferHandler(P, T, A, r) ==
    LET c == createTransfer(T, A, [r EXCEPT !.status = "completed"])
        product == getProduct(P, c.saved.productId)
    IN  IF c.threw
        THEN [products |-> P, transfers |-> c.transfers, activities |-> c.activities,
              status |-> 500, body |-> ErrorBody("Failed to create transfer")]
        ELSE IF ~product.exists
        THEN [products |-> P, transfers |-> c.transfers, activities |-> c.activities,
              status |-> 404, body |-> ErrorBody("Product not found")]
        ELSE [products |-> transferWrite(P, c.saved, product),
              transfers |-> c.transfers,
              activities |-> transferActivity(c.activities, c.saved, r.fault = "route"),
              status |-> 200, body |-> c.saved]

\* POST /api/invoices, the whole handler: its first statement evaluates
\* insertInvoiceSchema, which is bound nowhere, so the catch answers 500 and
\* nothing is stored. Were it bound: 400 on a body that does not parse, else
\* storage.createInvoice, then the first pass of the item loop calls
\* storage.createInvoiceItem, which MongoDBStorage does not define (TypeError,
\* 500); 201 is answered to an invoice without lines only.
invoiceHandler(P, I, r, t) ==
    IF ~Bound("insertInvoiceSchema") THEN [products |-> P, invoices |-> I, status |-> 500]
    ELSE IF ~r.valid THEN [products |-> P, invoices |-> I, status |-> 400]
    ELSE [products |-> createInvoice(P, r.items, t),
          invoices |-> Append(I, InvoiceDoc(Len(I) + 1, r.items)),
          status |-> IF r.items = <<>> THEN 201 ELSE 500]

\* storage.createProduct(productData): a new document under a fresh _id
createProduct(P, id, productData) == [P EXCEPT ![id] = productData]

\* POST /api/products: insertProductSchema.parse(req.body) throws the
\* ReferenceError, the catch answers 500; id is the _id a new document would get
postProductHandler(P, id, productData) ==
    IF ~Bound("insertProductSchema") THEN [products |-> P, status |-> 500]
    ELSE [products |-> createProduct(P, id, productData), status |-> 200]

\* PUT /api/products/:id: insertProductSchema.partial() throws the
\* ReferenceError, the catch answers 500; were the schema bound,
\* storage.updateProduct(Number(req.params.id), productData) would run
putProductHandler(P, id, productData) ==
    IF ~Bound("insertProductSchema") THEN [products |-> P, status |-> 500]
    ELSE LET After(_id) ==
                IF _id.error THEN [products |-> P, status |-> 500]
                ELSE [products |-> updateProduct(P, _id.id, productData), status |-> 200]
         IN  After(castObjectId(Number(id)))

\* DELETE /api/products/:id: storage.deleteProduct(Number(req.params.id))
\* rejects and the catch answers 500, or it resolves, with or without a
\* document deleted, and the handler answers { success: true }
deleteProductHandler(P, id) ==
    LET After(_id) ==
            IF _id.error THEN [products |-> P, status |-> 500]
            ELSE [products |-> deleteProduct(P, _id.id), status |-> 200]
    IN  After(castObjectId(Number(id)))

\* PUT /api/invoices/:id: insertInvoiceSchema.partial() throws the
\* ReferenceError, the catch answers 500; were the schema bound,
\* storage.updateInvoice(Number(req.params.id), invoiceData) would run
putInvoiceHandler(I, id, invoiceData) ==
    IF ~Bound("insertInvoiceSchema") THEN [invoices |-> I, status |-> 500]
    ELSE LET After(_id) ==
                IF _id.error THEN [invoices |-> I, status |-> 500]
                ELSE [invoices |-> updateInvoice(I, _id.id, invoiceData), status |-> 200]
         IN  After(castObjectId(Number(id)))

\* DELETE /api/invoices/:id: storage.deleteInvoice(Number(req.params.id))
\* rejects and the catch answers 500, or it resolves, with or without a
\* document deleted, and the handler answers { success: true }
deleteInvoiceHandler(I, id) ==
    LET After(_id) ==
            IF _id.error THEN [invoices |-> I, status |-> 500]
            ELSE [invoices |-> deleteInvoice(I, _id.id), status |-> 200]
    IN  After(castObjectId(Number(id)))

----------------------------------------------------------------------------
(* Requests *)

\* the body of a request or response that carries nothing that is looked at
NoBody == [none |-> TRUE]

BlankReq ==
    [op |-> "none", productId |-> 0, quantity |-> 0, cost |-> 0, location |-> "",
     fromLocation |-> "", toLocation |-> "", technicianName |-> "",
     activityType |-> "", status |-> "", valid |-> TRUE, items |-> <<>>,
     fault |-> "", days |-> 0, alertId |-> 0, update |-> NoBody, id |-> <<>>,
     sql |-> FALSE]

\* POST /api/products/:id/update-price: the id of the path and the body
PurchaseReq(id, q, c, loc) ==
    [BlankReq EXCEPT !.op = "purchase", !.id = id, !.quantity = q,
                     !.cost = c, !.location = loc]

\* body of POST /api/transfers; the client may send any status
TransferReq(pid, from, to, q, tech, type) ==
    [BlankReq EXCEPT !.op = "transfer", !.productId = pid, !.fromLocation = from,
                     !.toLocation = to, !.quantity = q, !.technicianName = tech,
                     !.activityType = type, !.status = "pending"]

\* body of POST /api/invoices
InvoiceReq(ok, items) ==
    [BlankReq EXCEPT !.op = "invoice", !.valid = ok, !.items = items]

\* the argument of storage.createInvoice: the lines of the invoice
CreateInvoiceCall(items) == [BlankReq EXCEPT !.op = "createInvoice", !.items = items]

\* invoice lines: any quantity of an existing product, and a negative one
\* (invoiceItemSchema asks of quantity that it is a Number, and createInvoice
\* checks nothing); one unit of a missing product
Items ==
    [productId : ProductIds, quantity : Quantities \cup {-1}]
        \cup [productId : {MissingId}, quantity : {1}]

\* purchases that pass the handler's validation, of every quantity into either
\* location, one of a missing product and one under TwelveDigits, one request
\* for each way of failing the validation, and one with a negative quantity
\* and one with a negative cost (both truthy in the validation)
PurchaseReqs ==
    {PurchaseReq(Hex(pid), q, c, loc) :
        pid \in ProductIds, q \in Quantities, c \in {6}, loc \in Locations}
    \cup {PurchaseReq(Hex(MissingId), 1, 6, "store"), PurchaseReq(TwelveDigits, 1, 6, "store")}
    \cup {PurchaseReq(Hex(pid), 1, 0, "store") : pid \in ProductIds}
    \cup {PurchaseReq(Hex(pid), 0, 6, "store") : pid \in ProductIds}
    \cup {PurchaseReq(Hex(pid), 1, 6, "") : pid \in ProductIds}
    \cup {PurchaseReq(Hex(pid), -1, 6, "store") : pid \in ProductIds}
    \cup {PurchaseReq(Hex(pid), 1, -6, "store") : pid \in ProductIds}

\* transfers of an existing product between the two locations, of every
\* quantity, and one unit within the warehouse; one unit of a missing product;
\* one unit from the warehouse to the store during which an activity write is
\* rejected by the database, for each technician pair and write rejected: the
\* one inside storage.createTransfer ("storage") or the handler's own ("route")
TransferReqs ==
    {TransferReq(pid, lp[1], lp[2], q, "", "") :
        pid \in ProductIds, lp \in {<<"warehouse", "store">>, <<"store", "warehouse">>},
        q \in Quantities}
    \cup {TransferReq(pid, lp[1], lp[2], 1, "ali", "repair") :
            pid \in ProductIds, lp \in {<<"warehouse", "store">>, <<"store", "warehouse">>}}
    \cup {TransferReq(pid, "warehouse", "store", 1, "ali", "") : pid \in ProductIds}
    \cup {TransferReq(pid, "warehouse", "warehouse", 1, "ali", "repair") : pid \in ProductIds}
    \cup {TransferReq(MissingId, "warehouse", "store", 1, "ali", "repair")}
    \cup {[TransferReq(pid, "warehouse", "store", 1, tf[1], tf[2]) EXCEPT !.fault = tf[3]] :
            pid \in ProductIds,
            tf \in {<<"ali", "", "storage">>, <<"ali", "repair", "storage">>,
                    <<"ali", "repair", "route">>}}

\* arguments of storage.updateProduct and bodies of PUT /api/products/:id: any
\* part of a product document, here one field at a time
ProductUpdates ==
    {[minStockLevel |-> 1], [warehouseStock |-> 0], [storeStock |-> MaxStock],
     [cost |-> Num(6)], [averageCost |-> Num(6)], [totalSold |-> 0],
     [lastSaleDate |-> 0]}

ProductReq(op, pid, productData) ==
    [BlankReq EXCEPT !.op = op, !.productId = pid, !.update = productData]

\* a call of a storage function on the document id of a collection
DocReq(op, id, upd) == [BlankReq EXCEPT !.op = op, !.alertId = id, !.update = upd]

\* a request of a route on the id of its path
PathReq(op, id, body) == [BlankReq EXCEPT !.op = op, !.id = id, !.update = body]

\* the path ids of the requests on a collection whose documents are ids: the
\* hex digits of each, and TwelveDigits
PathIds(ids) == {Hex(n) : n \in ids} \cup {TwelveDigits}

\* bodies of POST /api/invoices: invoices of one line, one without lines, and
\* one that does not parse
InvoiceReqs ==
    {InvoiceReq(TRUE, <<a>>) : a \in Items}
        \cup {InvoiceReq(TRUE, <<>>), InvoiceReq(FALSE, <<>>)}

\* the calls of storage.createInvoice: invoices of one line, and of two lines
\* the second of which is one unit of an existing product
InvoiceCalls ==
    {CreateInvoiceCall(<<a>>) : a \in Items}
        \cup {CreateInvoiceCall(<<a, [productId |-> pid, quantity |-> 1]>>) :
                a \in Items, pid \in ProductIds}

MinLevels == {2}

\* the workers serving requests side by side
Workers == {1, 2}

NoProducts == [p \in ProductIds |-> NoProduct]

\* a worker: the request it serves, where its handler stands, the handler's
\* locals (dates: the new Date() of each update issued so far), whether it
\* has run alone so far, and the time when it began and the products then (of
\* the SQL table, for a price update of the SQL storage)
Idle ==
    [pc |-> "idle", req |-> BlankReq, i |-> 0, product |-> NoProduct,
     saved |-> TransferDoc(0, BlankReq), alone |-> TRUE,
     pre |-> NoProducts, preTransfers |-> 0, preActs |-> <<>>, began |-> 0, dates |-> <<>>]

AllIdle == \A w \in Workers : reqs[w].pc = "idle"

\* what is remembered of a request that ran in one step
Done(r, status) ==
    [req |-> r, status |-> status, alone |-> AllIdle, at |-> now, began |-> now,
     pre |-> IF r.sql THEN rows ELSE products,
     preTransfers |-> Len(transfers), preActs |-> activities, preAlerts |-> alerts,
     body |-> NoBody, dates |-> <<>>]

\* the requests in flight no longer run alone
Disturbed ==
    [w \in Workers |->
        IF reqs[w].pc = "idle" THEN reqs[w] ELSE [reqs[w] EXCEPT !.alone = FALSE]]

\* where a handler or storage function stands before its first await
firstPc(r) ==
    IF r.op = "transfer" THEN "create"
    ELSE IF r.op = "createInvoice" THEN "save"
    ELSE IF r.op = "updateProductPrice" THEN "read"
    ELSE IF r.op = "recordSalesActivity" THEN "activity"
    ELSE IF r.op = "createAlert" THEN "alert"
    ELSE IF r.op = "getLowMovingStock" THEN "select"
    ELSE "check"

\* worker w is answered
Finish(w, status, body) ==
    /\ reqs' = [reqs EXCEPT ![w] = Idle]
    /\ last' = [req |-> reqs[w].req, status |-> status, alone |-> reqs[w].alone,
                at |-> now, began |-> reqs[w].began, pre |-> reqs[w].pre,
                preTransfers |-> reqs[w].preTransfers, preActs |-> reqs[w].preActs,
                preAlerts |-> alerts, body |-> body, dates |-> reqs[w].dates]

\* worker w goes on to pc
Goto(w, pc) ==
    /\ reqs' = [reqs EXCEPT ![w].pc = pc]
    /\ UNCHANGED last

----------------------------------------------------------------------------
(* Spec: the handlers and the storage functions. A request that awaits is   *)
(* taken by the first free worker and runs one await at a time, side by     *)
(* side with whatever else arrives.                                          *)

Init ==
    /\ products = NoProducts
    /\ transfers = <<>>
    /\ activities = <<>>
    /\ invoices = <<>>
    /\ now = 1
    /\ last = [req |-> BlankReq, status |-> 0, alone |-> TRUE, at |-> 1, began |-> 1, pre |-> NoProducts,
               preTransfers |-> 0, preActs |-> <<>>, preAlerts |-> <<>>,
               body |-> NoBody, dates |-> <<>>]
    /\ reqs = [w \in Workers |-> Idle]
    /\ epoch = [base |-> NoProducts, issued |-> <<>>, log |-> <<>>]
    /\ alerts = <<>>
    /\ bson \in {5, 6}
    /\ rows = NoProducts

\* storage.createProduct(productData), with stocks of WS and SS and costs of Seeds
CreateProductOf(WS, SS, Seeds) ==
    \E p \in ProductIds, ws \in WS, ss \in SS, seed \in Seeds, msl \in MinLevels :
        /\ ~products[p].exists /\ ~products[p].deleted
        /\ products' = createProduct(products, p, NewProduct(ws, ss, seed[1], seed[2], msl))
        /\ last' = Done([BlankReq EXCEPT !.op = "createProduct", !.productId = p], 200)
        /\ reqs' = Disturbed
        /\ UNCHANGED <<bson, rows, alerts, transfers, activities, invoices, now, epoch>>

\* a product is created with any stocks, and without costs or with both
CreateProduct ==
    CreateProductOf(0..MaxStock, 0..MaxStock, {<<NoCost, NoCost>>, <<Num(2), Num(2)>>})

\* storage.updateProduct(id, upd), with an update of U; the answer is the
\* document (200) or null (404)
UpdateProductOf(U) ==
    /\ now <= MaxOps
    /\ \E pid \in RequestIds, upd \in U :
        /\ pid = MissingId => upd = [minStockLevel |-> 1]
        /\ products' = updateProduct(products, pid, upd)
        /\ last' = Done(ProductReq("updateProduct", pid, upd),
                        IF getProduct(products, pid).exists THEN 200 ELSE 404)
    /\ reqs' = Disturbed
    /\ now' = now + 1
    /\ UNCHANGED <<bson, rows, alerts, transfers, activities, invoices, epoch>>

UpdateProduct == UpdateProductOf(ProductUpdates)

\* storage.deleteProduct(id): resolves with or without a document deleted
DeleteProduct ==
    /\ now <= MaxOps
    /\ \E pid \in RequestIds :
        /\ products' = deleteProduct(products, pid)
        /\ last' = Done(ProductReq("deleteProduct", pid, NoBody), 200)
    /\ reqs' = Disturbed
    /\ now' = now + 1
    /\ UNCHANGED <<bson, rows, alerts, transfers, activities, invoices, epoch>>

\* storage.updateTransfer(id, upd): no product is touched
UpdateTransfer ==
    /\ now <= MaxOps
    /\ \E id \in 1..(Len(transfers) + 1), upd \in {[status |-> "pending"], [quantity |-> MaxQty + 1]} :
        /\ transfers' = updateTransfer(transfers, id, upd)
        /\ last' = Done(DocReq("updateTransfer", id, upd),
                        IF Stored(transfers, id) THEN 200 ELSE 404)
    /\ reqs' = Disturbed
    /\ now' = now + 1
    /\ UNCHANGED <<bson, rows, alerts, products, activities, invoices, epoch>>

\* storage.deleteTransfer(id): resolves with or without a document deleted
DeleteTransfer ==
    /\ now <= MaxOps
    /\ \E id \in 1..(Len(transfers) + 1) :
        /\ transfers' = deleteTransfer(transfers, id)
        /\ last' = Done(DocReq("deleteTransfer", id, NoBody), 200)
    /\ reqs' = Disturbed
    /\ now' = now + 1
    /\ UNCHANGED <<bson, rows, alerts, products, activities, invoices, epoch>>

\* storage.updateInvoice(id, upd): no product is touched
UpdateInvoice ==
    /\ now <= MaxOps
    /\ \E id \in 1..(Len(invoices) + 1), upd \in {[status |-> "paid"], [items |-> <<>>]} :
        /\ invoices' = updateInvoice(invoices, id, upd)
        /\ last' = Done(DocReq("updateInvoice", id, upd),
                        IF Stored(invoices, id) THEN 200 ELSE 404)
    /\ reqs' = Disturbed
    /\ now' = now + 1
    /\ UNCHANGED <<bson, rows, alerts, products, transfers, activities, epoch>>

\* storage.deleteInvoice(id): resolves with or without a document deleted
DeleteInvoice ==
    /\ now <= MaxOps
    /\ \E id \in 1..(Len(invoices) + 1) :
        /\ invoices' = deleteInvoice(invoices, id)
        /\ last' = Done(DocReq("deleteInvoice", id, NoBody), 200)
    /\ reqs' = Disturbed
    /\ now' = now + 1
    /\ UNCHANGED <<bson, rows, alerts, products, transfers, activities, epoch>>

\* PUT /api/invoices/:id
PutInvoice ==
    /\ now <= MaxOps
    /\ \E id \in PathIds(1..(Len(invoices) + 1)) :
        LET Answer(h) == /\ invoices' = h.invoices
                         /\ last' = Done(PathReq("putInvoice", id, [status |-> "paid"]), h.status)
        IN  Answer(putInvoiceHandler(invoices, id, [status |-> "paid"]))
    /\ reqs' = Disturbed
    /\ now' = now + 1
    /\ UNCHANGED <<bson, rows, alerts, products, transfers, activities, epoch>>

\* DELETE /api/invoices/:id
DeleteInvoiceById ==
    /\ now <= MaxOps
    /\ \E id \in PathIds(1..(Len(invoices) + 1)) :
        LET Answer(h) == /\ invoices' = h.invoices
                         /\ last' = Done(PathReq("deleteInvoiceById", id, NoBody), h.status)
        IN  Answer(deleteInvoiceHandler(invoices, id))
    /\ reqs' = Disturbed
    /\ now' = now + 1
    /\ UNCHANGED <<bson, rows, alerts, products, transfers, activities, epoch>>

\* POST /api/products/:id/update-price, with a request of R: the handler
\* answers before or at its first await
PurchaseOf(R) ==
    /\ now <= MaxOps
    /\ \E r \in R :
        LET Answer(h) == /\ products' = h.products
                         /\ last' = Done(r, h.status)
        IN  Answer(purchaseHandler(products, r))
    /\ reqs' = Disturbed
    /\ now' = now + 1
    /\ UNCHANGED <<bson, rows, alerts, transfers, activities, invoices, epoch>>

\* POST /api/invoices: the handler answers before its first await
Invoice ==
    /\ now <= MaxOps
    /\ \E r \in InvoiceReqs :
        LET h == invoiceHandler(products, invoices, r, now)
        IN  /\ products' = h.products
            /\ invoices' = h.invoices
            /\ last' = Done(r, h.status)
    /\ reqs' = Disturbed
    /\ now' = now + 1
    /\ UNCHANGED <<bson, rows, alerts, transfers, activities, epoch>>

\* a request of R that awaits arrives and the first free worker takes it; when
\* the requests are recorded, they are made on the products that exist, and
\* the record begins anew with the request that finds no other in flight
IssueOf(w, R, record) ==
    /\ now <= MaxOps
    /\ reqs[w].pc = "idle"
    /\ \A v \in Workers : v < w => reqs[v].pc # "idle"
    /\ record => \E p \in ProductIds : products[p].exists
    /\ \E r \in R :
        /\ reqs' = [Disturbed EXCEPT ![w] =
                        [Idle EXCEPT !.pc = firstPc(r), !.req = r, !.i = 1,
                                     !.alone = AllIdle,
                                     !.pre = IF r.sql THEN rows ELSE products,
                                     !.preTransfers = Len(transfers),
                                     !.preActs = activities, !.began = now + 1]]
        /\ epoch' = IF ~record THEN epoch
                    ELSE IF AllIdle THEN [base |-> products, issued |-> <<r>>, log |-> <<>>]
                    ELSE [epoch EXCEPT !.issued = Append(@, r)]
    /\ now' = now + 1
    /\ UNCHANGED <<bson, rows, alerts, products, transfers, activities, invoices, last>>

\* transfers, in storage.createTransfer: const savedTransfer = await transfer.save()
TransferCreate(w) ==
    /\ reqs[w].pc = "create"
    /\ LET saved == TransferDoc(Len(transfers) + 1,
                                [reqs[w].req EXCEPT !.status = "completed"])
       IN  /\ transfers' = Append(transfers, saved)
           /\ reqs' = [reqs EXCEPT ![w].saved = saved,
                                    ![w].pc = IF saved.technicianName # "" THEN "activity"
                                              ELSE "lookup"]
    /\ UNCHANGED <<bson, rows, alerts, products, activities, invoices, now, last, epoch>>

\* transfers, in storage.createTransfer: await this.createTechnicianActivity(...);
\* when the write rejects, createTransfer throws and the handler answers 500
TransferActivity(w) ==
    /\ reqs[w].pc = "activity"
    /\ IF reqs[w].req.fault = "storage"
       THEN /\ Finish(w, 500, ErrorBody("Failed to create transfer"))
            /\ UNCHANGED activities
       ELSE /\ activities' = createTechnicianActivity(activities,
                                createTransferActivity(reqs[w].saved, reqs[w].req))
            /\ Goto(w, "lookup")
    /\ UNCHANGED <<bson, rows, alerts, products, transfers, invoices, now, epoch>>

\* transfers: const product = await storage.getProduct(transfer.productId);
\* 404 when there is none; with no stock to move and no activity to record the
\* handler answers the saved transfer
TransferRead(w) ==
    /\ reqs[w].pc = "lookup"
    /\ LET product == getProduct(products, reqs[w].saved.productId)
           t == reqs[w].saved
       IN  IF ~product.exists THEN Finish(w, 404, ErrorBody("Product not found"))
           ELSE IF transferMoves(t)
           THEN reqs' = [reqs EXCEPT ![w].product = product, ![w].pc = "move"]
                /\ UNCHANGED last
           ELSE IF transferRecords(t) THEN Goto(w, "record")
           ELSE Finish(w, 200, t)
    /\ UNCHANGED <<bson, rows, alerts, products, transfers, activities, invoices, now, epoch>>

\* transfers: await storage.updateProduct(product.id, {...})
TransferWrite(w) ==
    /\ reqs[w].pc = "move"
    /\ products' = transferWrite(products, reqs[w].saved, reqs[w].product)
    /\ IF transferRecords(reqs[w].saved) THEN Goto(w, "record")
       ELSE Finish(w, 200, reqs[w].saved)
    /\ UNCHANGED <<bson, rows, alerts, transfers, activities, invoices, now, epoch>>

\* transfers: try { await storage.createTechnicianActivity(...) } catch, then
\* res.json(transfer)
TransferRecord(w) ==
    /\ reqs[w].pc = "record"
    /\ activities' = transferActivity(activities, reqs[w].saved,
                                      reqs[w].req.fault = "route")
    /\ Finish(w, 200, reqs[w].saved)
    /\ UNCHANGED <<bson, rows, alerts, products, transfers, invoices, now, epoch>>

\* storage.createInvoice: const savedInvoice = await invoice.save(); an invoice
\* without lines is returned, else the update of the first line is issued,
\* with the new Date() of this moment
CreateInvoiceSave(w) ==
    /\ reqs[w].pc = "save"
    /\ invoices' = Append(invoices, InvoiceDoc(Len(invoices) + 1, reqs[w].req.items))
    /\ IF reqs[w].req.items = <<>> THEN Finish(w, 200, NoBody)
       ELSE reqs' = [reqs EXCEPT ![w].pc = "inc", ![w].dates = <<now>>] /\ UNCHANGED last
    /\ UNCHANGED <<bson, rows, alerts, products, transfers, activities, now, epoch>>

\* storage.createInvoice, one pass of the item loop: await
\* Product.findByIdAndUpdate(item.productId, {$inc: ..., lastSaleDate: new
\* Date()}) is applied, with the date it was issued with; the update of the
\* next line is issued, or the invoice is returned after the last pass. When
\* the calls are recorded, so is the storeStock each update found.
CreateInvoiceInc(w) ==
    /\ reqs[w].pc = "inc"
    /\ LET r == reqs[w]
           item == r.req.items[r.i]
       IN  /\ products' = incSale(products, item, r.dates[r.i])
           /\ IF r.i < Len(r.req.items)
              THEN reqs' = [reqs EXCEPT ![w].i = r.i + 1, ![w].dates = Append(@, now)]
                   /\ UNCHANGED last
              ELSE Finish(w, 200, NoBody)
           /\ epoch' = IF epoch.issued # <<>> /\ getProduct(products, item.productId).exists
                       THEN [epoch EXCEPT !.log =
                                Append(@, <<w, products[item.productId].storeStock>>)]
                       ELSE epoch
    /\ UNCHANGED <<bson, rows, alerts, transfers, activities, invoices, now>>

\* POST /api/products
PostProduct ==
    /\ now <= MaxOps
    /\ \E p \in ProductIds, ws \in 0..MaxStock, ss \in 0..MaxStock :
        LET h == postProductHandler(products, p, NewProduct(ws, ss, NoCost, NoCost, 0))
        IN  /\ ~products[p].exists /\ ~products[p].deleted
            /\ products' = h.products
            /\ last' = Done(ProductReq("postProduct", p, NoBody), h.status)
    /\ reqs' = Disturbed
    /\ now' = now + 1
    /\ UNCHANGED <<bson, rows, alerts, transfers, activities, invoices, epoch>>

\* PUT /api/products/:id
PutProduct ==
    /\ now <= MaxOps
    /\ \E id \in PathIds(RequestIds), productData \in ProductUpdates :
        LET Answer(h) == /\ products' = h.products
                         /\ last' = Done(PathReq("putProduct", id, productData), h.status)
        IN  Answer(putProductHandler(products, id, productData))
    /\ reqs' = Disturbed
    /\ now' = now + 1
    /\ UNCHANGED <<bson, rows, alerts, transfers, activities, invoices, epoch>>

\* DELETE /api/products/:id
DeleteProductById ==
    /\ now <= MaxOps
    /\ \E id \in PathIds(RequestIds) :
        LET Answer(h) == /\ products' = h.products
                         /\ last' = Done(PathReq("deleteProductById", id, NoBody), h.status)
        IN  Answer(deleteProductHandler(products, id))
    /\ reqs' = Disturbed
    /\ now' = now + 1
    /\ UNCHANGED <<bson, rows, alerts, transfers, activities, invoices, epoch>>

Next ==
    \/ CreateProduct \/ UpdateProduct \/ DeleteProduct
    \/ UpdateTransfer \/ DeleteTransfer \/ UpdateInvoice \/ DeleteInvoice
    \/ PostProduct \/ PutProduct \/ DeleteProductById
    \/ PutInvoice \/ DeleteInvoiceById
    \/ PurchaseOf(PurchaseReqs) \/ Invoice
    \/ \E w \in Workers :
        \/ IssueOf(w, TransferReqs \cup InvoiceCalls, FALSE)
        \/ TransferCreate(w) \/ TransferActivity(w) \/ TransferRead(w)
        \/ TransferWrite(w) \/ TransferRecord(w)
        \/ CreateInvoiceSave(w) \/ CreateInvoiceInc(w)

\* the server built on the bson package of today; CrudSpec runs the handlers
\* that cast a path id on either package
InitModern == Init /\ bson = 6

Spec == InitModern /\ [][Next]_vars

----------------------------------------------------------------------------
(* ConcSpec: requests on an existing product run side by side, and are      *)
(* recorded from the one that finds no other in flight: the products then   *)
(* (epoch.base) and the requests since, in the order they arrived           *)
(* (epoch.issued).                                                           *)

\* the arguments of updateProductPrice, of MongoDBStorage or (sql) of one of
\* the two SQL DatabaseStorage classes
PriceReq(op, pid, c, q) ==
    [BlankReq EXCEPT !.op = op, !.sql = (op # "updateProductPrice"),
                     !.productId = pid, !.cost = c, !.quantity = q]

\* requests that mutate an existing product: transfers between the two
\* locations, storage-level sales and storage-level price updates
ConcReqs ==
    {TransferReq(pid, lp[1], lp[2], q, tp[1], tp[2]) :
        pid \in ProductIds, lp \in {<<"warehouse", "store">>, <<"store", "warehouse">>},
        q \in Quantities, tp \in {<<"", "">>, <<"ali", "repair">>}}
    \cup {c \in InvoiceCalls : \A i \in 1..Len(c.items) : c.items[i].productId \in ProductIds}
    \cup {PriceReq("updateProductPrice", pid, 6, q) : pid \in ProductIds, q \in Quantities}

\* MongoDBStorage.updateProductPrice: const product = await
\* Product.findById(productId); null when there is none
PriceRead(w) ==
    /\ reqs[w].pc = "read"
    /\ LET product == getProduct(products, reqs[w].req.productId)
       IN  IF ~product.exists THEN Finish(w, 404, NoBody)
           ELSE reqs' = [reqs EXCEPT ![w].product = product, ![w].pc = "write"]
                /\ UNCHANGED last
    /\ UNCHANGED <<bson, rows, alerts, products, transfers, activities, invoices, now, epoch>>

\* MongoDBStorage.updateProductPrice: return await Product.findByIdAndUpdate(...)
PriceWrite(w) ==
    /\ reqs[w].pc = "write"
    /\ products' = priceWrite(products, reqs[w].req.productId, reqs[w].product,
                              reqs[w].req.cost, reqs[w].req.quantity)
    /\ Finish(w, 200, NoBody)
    /\ UNCHANGED <<bson, rows, alerts, transfers, activities, invoices, now, epoch>>

ConcNext ==
    \/ CreateProduct
    \/ \E w \in Workers :
        \/ IssueOf(w, ConcReqs, TRUE)
        \/ TransferCreate(w) \/ TransferActivity(w) \/ TransferRead(w)
        \/ TransferWrite(w) \/ TransferRecord(w)
        \/ CreateInvoiceSave(w) \/ CreateInvoiceInc(w)
        \/ PriceRead(w) \/ PriceWrite(w)

ConcSpec == InitModern /\ [][ConcNext]_vars

\* the products after the request has run alone
handlerProducts(P, r, t) ==
    IF r.op = "transfer" THEN transferHandler(P, <<>>, <<>>, r).products
    ELSE IF r.op = "createInvoice" THEN createInvoice(P, r.items, t)
    ELSE updateProductPrice(P, r.productId, r.cost, r.quantity)

\* the products after the requests rs have run one after the other on day t
RECURSIVE serial(_, _, _)
serial(P, rs, t) ==
    IF rs = <<>> THEN P ELSE serial(handlerProducts(P, Head(rs), t), Tail(rs), t)

----------------------------------------------------------------------------
(* StorageSpec: calls of MongoDBStorage.createInvoice run side by side      *)
(* while the days pass, and are recorded as in ConcSpec, with the           *)
(* storeStock each update found (epoch.log).                                *)

\* a day passes
Tick ==
    /\ now <= MaxOps
    /\ now' = now + 1
    /\ UNCHANGED <<bson, rows, alerts, products, transfers, activities, invoices, last, reqs, epoch>>

StorageNext ==
    \/ CreateProductOf({1}, 0..MaxStock, {<<Num(2), Num(2)>>}) \/ Tick
    \/ \E w \in Workers :
        IssueOf(w, InvoiceCalls, TRUE) \/ CreateInvoiceSave(w) \/ CreateInvoiceInc(w)

StorageSpec == InitModern /\ [][StorageNext]_vars

----------------------------------------------------------------------------
(* CostSpec: the costing functions of MongoDBStorage and of the SQL storages,  *)
(* called directly on a product with any stored cost fields, which the         *)
(* collection of the one and the table of the others both hold. No handler of  *)
(* routes_clean.ts calls them.                                                 *)

\* unit costs passed to updateProductPrice
PriceCosts == {0, 2, 6}

\* calls of updateProductPrice of MongoDBStorage and of the DatabaseStorage
\* of part_010 on an existing product, and one of each on a missing one; one
\* call of the DatabaseStorage of storage_simple.ts on either
PriceCalls ==
    {PriceReq(op, pid, c, q) :
        op \in {"updateProductPrice", "dbUpdateProductPrice"}, pid \in ProductIds,
        c \in PriceCosts, q \in Quantities}
    \cup {PriceReq(op, MissingId, 6, 1) : op \in {"updateProductPrice", "dbUpdateProductPrice"}}
    \cup {PriceReq("simpleUpdateProductPrice", pid, 6, 1) : pid \in RequestIds}

\* a product with any stocks and any stored (cost, averageCost) pair of the
\* optional fields
CostInit ==
    /\ \E ws \in 0..MaxStock, ss \in 0..MaxStock, msl \in MinLevels,
          sc \in {<<NoCost, NoCost>>, <<Num(2), NoCost>>, <<NoCost, Num(2)>>,
                  <<Num(4), Num(0)>>, <<Num(2), Num(4)>>, <<Num(0), Num(0)>>} :
        /\ products = [p \in ProductIds |-> NewProduct(ws, ss, sc[1], sc[2], msl)]
        /\ last = [req |-> BlankReq, status |-> 0, alone |-> TRUE, at |-> 1, began |-> 1,
                   pre |-> products, preTransfers |-> 0, preActs |-> <<>>,
                   preAlerts |-> <<>>, body |-> NoBody, dates |-> <<>>]
        /\ epoch = [base |-> products, issued |-> <<>>, log |-> <<>>]
    /\ transfers = <<>>
    /\ activities = <<>>
    /\ invoices = <<>>
    /\ now = 1
    /\ reqs = [w \in Workers |-> Idle]
    /\ alerts = <<>>
    /\ bson = 6
    /\ rows = products

\* DatabaseStorage.updateProductPrice, of part_010 and of storage_simple.ts:
\* const product = await this.getProduct(productId); throws when there is none
DbPriceCheck(w) ==
    /\ reqs[w].pc = "check"
    /\ IF ~getProduct(rows, reqs[w].req.productId).exists
       THEN Finish(w, 500, ErrorBody("Product not found"))
       ELSE Goto(w, IF reqs[w].req.op = "dbUpdateProductPrice" THEN "calc" ELSE "simple")
    /\ UNCHANGED <<bson, rows, alerts, products, transfers, activities, invoices, now, epoch>>

\* DatabaseStorage.calculateAveragePrice: const product = await
\* this.getProduct(productId); throws when there is none; the average is
\* computed from this row
DbPriceCalc(w) ==
    /\ reqs[w].pc = "calc"
    /\ LET product == getProduct(rows, reqs[w].req.productId)
       IN  IF ~product.exists THEN Finish(w, 500, ErrorBody("Product not found"))
           ELSE reqs' = [reqs EXCEPT ![w].product = product, ![w].pc = "history"]
                /\ UNCHANGED last
    /\ UNCHANGED <<bson, rows, alerts, products, transfers, activities, invoices, now, epoch>>

\* DatabaseStorage.updateProductPrice: await db.insert(priceHistory); the
\* table is read by no function of the storage
DbPriceHistory(w) ==
    /\ reqs[w].pc = "history"
    /\ Goto(w, "store")
    /\ UNCHANGED <<bson, rows, alerts, products, transfers, activities, invoices, now, epoch>>

\* DatabaseStorage.updateProductPrice: await db.update(products), of cost and
\* averageCost (the scale of the decimal columns is not modelled)
DbPriceWrite(w) ==
    /\ reqs[w].pc = "store"
    /\ rows' = updateProduct(rows, reqs[w].req.productId,
                    [cost |-> Num(reqs[w].req.cost),
                     averageCost |-> calculateAveragePrice(reqs[w].product,
                                        reqs[w].req.cost, reqs[w].req.quantity)])
    /\ Finish(w, 200, NoBody)
    /\ UNCHANGED <<bson, alerts, products, transfers, activities, invoices, now, epoch>>

\* DatabaseStorage.updateProductPrice of storage_simple.ts: await
\* db.update(products), of cost alone
SimplePriceWrite(w) ==
    /\ reqs[w].pc = "simple"
    /\ rows' = updateProduct(rows, reqs[w].req.productId, [cost |-> Num(reqs[w].req.cost)])
    /\ Finish(w, 200, NoBody)
    /\ UNCHANGED <<bson, alerts, products, transfers, activities, invoices, now, epoch>>

CostNext ==
    \E w \in Workers :
        \/ IssueOf(w, PriceCalls, FALSE)
        \/ PriceRead(w) \/ PriceWrite(w)
        \/ DbPriceCheck(w) \/ DbPriceCalc(w) \/ DbPriceHistory(w) \/ DbPriceWrite(w)
        \/ SimplePriceWrite(w)

CostSpec == CostInit /\ [][CostNext]_vars

----------------------------------------------------------------------------
(* MonitorSpec: the low-stock query, run between product creations,           *)
(* purchases, stock updates, sales and the passing of days. A query records   *)
(* its answer, the request answered before it, and the answer the same query  *)
(* has on the products as they were before that request.                      *)
(* AlertSpec: the alert functions of the storage, called directly: alerts are *)
(* created side by side, listed and acknowledged. No handler of               *)
(* routes_clean.ts calls them, and GET /api/alerts/low-moving-stock, which    *)
(* the alert centre of the client requests, is no route of it.                *)

MonitorReq(op, days, alertId) ==
    [BlankReq EXCEPT !.op = op, !.days = days, !.alertId = alertId]

\* purchases at one cost, stock and minimum updates, and single-line sales of
\* an existing product
MonitorPurchaseReqs ==
    {PurchaseReq(Hex(pid), 1, 6, loc) : pid \in ProductIds, loc \in Locations}
SaleCalls ==
    {CreateInvoiceCall(<<[productId |-> pid, quantity |-> q]>>) :
        pid \in ProductIds, q \in Quantities}


\* GET /api/products/low-stock -> storage.getLowStockProducts(); after: the
\* request answered just before, when it ran alone and nothing has run since
GetLowStockProducts ==
    /\ last' = [Done(MonitorReq("getLowStockProducts", 0, 0), 200) EXCEPT
                    !.body = [result |-> getLowStockProducts(products),
                              after |-> IF AllIdle /\ last.alone THEN last.req.op ELSE "none",
                              before |-> getLowStockProducts(last.pre)]]
    /\ UNCHANGED <<bson, rows, alerts, products, transfers, activities, invoices, now, reqs, epoch>>

\* storage.createAlert(type, ..., productId) is called, of either type the
\* alert centre shows: const alert = new SystemAlert({...}), made at this
\* moment
CreateAlert(w) ==
    IssueOf(w, {[MonitorReq("createAlert", 0, 0) EXCEPT !.productId = p,
                                                        !.update = [type |-> type]] :
                    p \in ProductIds, type \in {"low_stock", "low_moving_stock"}}, FALSE)

\* storage.createAlert: return await alert.save()
CreateAlertSave(w) ==
    /\ reqs[w].pc = "alert"
    /\ alerts' = createAlert(alerts, reqs[w].req.update.type, reqs[w].req.productId,
                             reqs[w].began)
    /\ Finish(w, 200, NoBody)
    /\ UNCHANGED <<bson, rows, products, transfers, activities, invoices, now, epoch>>

\* storage.getAlerts(isRead), without an argument or with either flag
GetAlerts ==
    /\ \E isRead \in {<<>>, <<FALSE>>, <<TRUE>>} :
        last' = [Done([MonitorReq("getAlerts", 0, 0) EXCEPT !.update = [isRead |-> isRead]],
                      200)
                    EXCEPT !.body = [result |-> getAlerts(alerts, isRead)]]
    /\ UNCHANGED <<bson, rows, alerts, products, transfers, activities, invoices, now, reqs, epoch>>

\* storage.markAlertAsRead(alertId), on a stored alert (read or not) or on an
\* id no alert has
MarkAlertAsRead ==
    /\ \E alertId \in 1..(Len(alerts) + 1) :
        /\ alerts' = markAlertAsRead(alerts, alertId)
        /\ last' = Done(MonitorReq("markAlertAsRead", 0, alertId), 200)
    /\ UNCHANGED <<bson, rows, products, transfers, activities, invoices, now, reqs, epoch>>

\* the products watched are created without costs, with any stock in the
\* store and up to one unit in the warehouse; their stocks and minimum are
\* updated
MonitorNext ==
    \/ CreateProductOf({0, 1}, 0..MaxStock, {<<NoCost, NoCost>>})
    \/ PurchaseOf(MonitorPurchaseReqs)
    \/ UpdateProductOf({[warehouseStock |-> MaxStock], [storeStock |-> 0],
                        [minStockLevel |-> 1]})
    \/ Tick
    \/ GetLowStockProducts
    \/ \E w \in Workers :
        IssueOf(w, SaleCalls, FALSE) \/ CreateInvoiceSave(w) \/ CreateInvoiceInc(w)

MonitorSpec == InitModern /\ [][MonitorNext]_vars

AlertNext ==
    \/ GetAlerts \/ MarkAlertAsRead
    \/ \E w \in Workers : CreateAlert(w) \/ CreateAlertSave(w)

AlertSpec == InitModern /\ [][AlertNext]_vars

----------------------------------------------------------------------------
(* DbMonitorSpec: the low-moving-stock query of the SQL DatabaseStorage, run   *)
(* beside the functions of that storage that write the rows it reads: the      *)
(* insertion, the update and the deletion of a product and the recording of    *)
(* sales activities, while the days pass. Nothing of routes_clean.ts calls     *)
(* them.                                                                       *)

\* DatabaseStorage.createProduct(insertProduct): a row with up to one unit in
\* the warehouse and no stock or MaxStock in the store, never sold
DbCreateProduct ==
    /\ \E p \in ProductIds, ws \in {0, 1}, ss \in {0, MaxStock}, msl \in MinLevels :
        /\ ~rows[p].exists /\ ~rows[p].deleted
        /\ rows' = createProduct(rows, p, NewProduct(ws, ss, NoCost, NoCost, msl))
        /\ last' = Done([BlankReq EXCEPT !.op = "dbCreateProduct", !.productId = p], 200)
    /\ reqs' = Disturbed
    /\ UNCHANGED <<bson, alerts, products, transfers, activities, invoices, now, epoch>>

\* DatabaseStorage.updateProduct(id, updateProduct), of part_010 and of
\* storage_simple.ts: await db.update(products).set({...updateProduct}) of the
\* row with that id, when there is one; the stock is taken out of both
\* locations, or the store is filled
DbUpdateProduct ==
    /\ \E pid \in ProductIds,
          upd \in {[warehouseStock |-> 0, storeStock |-> 0], [storeStock |-> MaxStock]} :
        /\ rows' = updateProduct(rows, pid, upd)
        /\ last' = Done([BlankReq EXCEPT !.op = "dbUpdateProduct", !.productId = pid], 200)
    /\ reqs' = Disturbed
    /\ UNCHANGED <<bson, alerts, products, transfers, activities, invoices, now, epoch>>

\* DatabaseStorage.deleteProduct(id), of part_010 and of storage_simple.ts:
\* await db.delete(products) of the row with that id, when there is one
DbDeleteProduct ==
    /\ \E pid \in ProductIds :
        /\ rows' = deleteProduct(rows, pid)
        /\ last' = Done([BlankReq EXCEPT !.op = "dbDeleteProduct", !.productId = pid], 200)
    /\ reqs' = Disturbed
    /\ UNCHANGED <<bson, alerts, products, transfers, activities, invoices, now, epoch>>

\* DatabaseStorage.recordSalesActivity(productId, quantity, unitPrice,
\* activityType), one step for each await: the salesActivity row is inserted,
\* and that is all unless activityType is 'sale'; the product is read, and
\* when there is one the update is issued with the new Date() of this moment;
\* lastSaleDate and totalSold, the quantity added to the totalSold that was
\* read, are written
RecordSalesActivity(w) ==
    /\ UNCHANGED <<bson, alerts, products, transfers, activities, invoices, now, epoch>>
    /\ LET r == reqs[w]
       IN
        \/ /\ r.pc = "activity"
           /\ IF r.req.activityType = "sale" THEN Goto(w, "product")
              ELSE Finish(w, 200, NoBody)
           /\ UNCHANGED rows
        \/ /\ r.pc = "product"
           /\ IF getProduct(rows, r.req.productId).exists
              THEN reqs' = [reqs EXCEPT ![w].product = getProduct(rows, r.req.productId),
                                        ![w].dates = <<now>>, ![w].pc = "update"]
                   /\ UNCHANGED last
              ELSE Finish(w, 200, NoBody)
           /\ UNCHANGED rows
        \/ /\ r.pc = "update"
           /\ rows' = updateProduct(rows, r.req.productId,
                            [lastSaleDate |-> r.dates[1],
                             totalSold |-> r.product.totalSold + r.req.quantity])
           /\ Finish(w, 200, NoBody)

\* DatabaseStorage.getLowMovingStock(daysSinceLastSale): cutoffDate was taken
\* from the new Date() of the call (began); await db.select() reads the rows
\* the table holds when it is run
GetLowMovingStock(w) ==
    /\ reqs[w].pc = "select"
    /\ Finish(w, 200, [result |-> getLowMovingStock(rows, reqs[w].began, reqs[w].req.days)])
    /\ UNCHANGED <<bson, rows, alerts, products, transfers, activities, invoices, now, epoch>>

\* a day passes, one more than the calls can take up, so that one can pass
\* while the last of them waits; sales of one unit of a product or of MaxQty,
\* and returns, which are recorded under another activityType;
\* getLowMovingStock is called with a trailing window of no day, one day or two
DbMonitorNext ==
    \/ DbCreateProduct \/ DbUpdateProduct \/ DbDeleteProduct
    \/ /\ now <= MaxOps + 1
       /\ now' = now + 1
       /\ UNCHANGED <<bson, rows, alerts, products, transfers, activities, invoices,
                      last, reqs, epoch>>
    \/ \E w \in Workers :
        \/ IssueOf(w, {MonitorReq("getLowMovingStock", days, 0) : days \in {0, 1, 2}},
                   FALSE)
        \/ GetLowMovingStock(w)
        \/ IssueOf(w, {[BlankReq EXCEPT !.op = "recordSalesActivity",
                                        !.productId = pid, !.quantity = tq[2],
                                        !.activityType = tq[1]] :
                            pid \in ProductIds,
                            tq \in {<<"sale", 1>>, <<"sale", MaxQty>>, <<"return", 1>>}},
                   FALSE)
        \/ RecordSalesActivity(w)

DbMonitorSpec == InitModern /\ [][DbMonitorNext]_vars

----------------------------------------------------------------------------
(* CrudSpec: the endpoints that take a path id and storage.updateProduct,    *)
(* run between product creations and sales, on either bson package.         *)

CrudNext ==
    \/ CreateProduct \/ UpdateProduct \/ PostProduct \/ PutProduct \/ DeleteProductById
    \/ PutInvoice \/ DeleteInvoiceById
    \/ PurchaseOf(PurchaseReqs)
    \/ \E w \in Workers : IssueOf(w, SaleCalls, FALSE) \/ CreateInvoiceSave(w) \/ CreateInvoiceInc(w)

CrudSpec == Init /\ [][CrudNext]_vars

----------------------------------------------------------------------------
(* LedgerSpec: purchases, transfers and sales of an existing product.        *)

\* POST /api/transfers or a call of storage.createInvoice arrives: a transfer
\* from the warehouse to the store, of one unit or of MaxQty, or of one unit
\* back, with and without a technician, or a sale of one unit or of -1
LedgerNext ==
    \/ CreateProductOf({0, MaxStock}, {0, MaxStock}, {<<Num(2), Num(2)>>})
    \/ PurchaseOf(MonitorPurchaseReqs)
    \/ \E w \in Workers :
        \/ IssueOf(w, {TransferReq(pid, "warehouse", "store", q, "", "") :
                            pid \in ProductIds, q \in {1, MaxQty}}
                        \cup {TransferReq(pid, "store", "warehouse", 1, tp[1], tp[2]) :
                                pid \in ProductIds, tp \in {<<"", "">>, <<"ali", "repair">>}}
                        \cup {CreateInvoiceCall(<<[productId |-> pid, quantity |-> q]>>) :
                                pid \in ProductIds, q \in {1, -1}}, FALSE)
        \/ TransferCreate(w) \/ TransferActivity(w) \/ TransferRead(w)
        \/ TransferWrite(w) \/ TransferRecord(w)
        \/ CreateInvoiceSave(w) \/ CreateInvoiceInc(w)

LedgerSpec == InitModern /\ [][LedgerNext]_vars

----------------------------------------------------------------------------
(* What the specification asks of a request, in terms of `last`.            *)

\* the request answered last was op; it ran alone, and nothing has run since:
\* the products are as it left them, last.pre is how it found them
LastIs(op) == AllIdle /\ last.alone /\ last.req.op = op
\* the request answered last was op
LastWas(op) == last.req.op = op
Rejected == last.status >= 400
\* the recorded requests have all been answered
AllDone == AllIdle /\ epoch.issued # <<>>
PreProduct(p) == last.pre[p]
Existed(id) == id \in ProductIds /\ last.pre[id].exists
\* the product the path of the last request names
PathProduct == ByHex(last.req.id)

\* a sale: the call of storage.createInvoice, or the POST /api/invoices whose
\* body parses
LastIsSale ==
    LastIs("createInvoice") \/ (LastIs("invoice") /\ last.req.valid)

\* stock held at a location by a product document
StockAt(product, loc) ==
    IF loc = "warehouse" THEN product.warehouseStock ELSE product.storeStock

\* total quantity an item list asks of product p
RECURSIVE SumQty(_, _)
SumQty(items, p) ==
    IF items = <<>> THEN 0
    ELSE (IF Head(items).productId = p THEN Head(items).quantity ELSE 0)
         + SumQty(Tail(items), p)

\* some line of the last invoice asks more than the store held before the call
SomeLineShort ==
    \E i \in 1..Len(last.req.items) :
        /\ Existed(last.req.items[i].productId)
        /\ last.req.items[i].quantity > PreProduct(last.req.items[i].productId).storeStock

\* the specification's weighted average: currentCost = averageCost ?? cost ?? c
SpecAverage(product, q, c) ==
    LET s0 == product.warehouseStock + product.storeStock
        c0 == IF product.averageCost.set THEN product.averageCost
              ELSE IF product.cost.set THEN product.cost
              ELSE Num(c)
    IN  IF s0 > 0
        THEN NumDivInt(NumAdd(NumMulInt(c0, s0), Num(q * c)), s0 + q)
        ELSE Num(c)

\* stock and cost fields of every product
StockAndCost(P) ==
    [p \in ProductIds |->
        <<P[p].warehouseStock, P[p].storeStock, P[p].cost, P[p].averageCost>>]

----------------------------------------------------------------------------
(* Claims *)

\* C1: stock non-negativity. After every transfer and sale both counters of
\* every product are >= 0, and a transfer or sale that asks more than the
\* source location holds is rejected and leaves the products unchanged.
C1_StockNonNegative ==
    /\ (LastIs("transfer") \/ LastIsSale)
        => \A p \in ProductIds :
            products[p].warehouseStock >= 0 /\ products[p].storeStock >= 0
    /\ (LastIs("createInvoice") /\ SomeLineShort)
        => Rejected /\ products = last.pre
    /\ (/\ LastIs("transfer") /\ Existed(last.req.productId)
        /\ last.req.fromLocation # last.req.toLocation
        /\ last.req.quantity > StockAt(PreProduct(last.req.productId), last.req.fromLocation))
        => Rejected /\ products = last.pre

\* C2: sale atomicity. When a line of an invoice batch fails the store-stock
\* check, no line of the batch is applied: storeStock, totalSold and
\* lastSaleDate of every product are as before the call.
C2_SaleAtomicity ==
    (LastIsSale /\ SomeLineShort)
        => \A p \in ProductIds :
            /\ products[p].storeStock = PreProduct(p).storeStock
            /\ products[p].totalSold = PreProduct(p).totalSold
            /\ products[p].lastSaleDate = PreProduct(p).lastSaleDate

\* C3: transfer conservation. Every transfer, of any quantity > 0 in either
\* direction, leaves warehouseStock + storeStock of the product as it was.
C3_TransferConservation ==
    LastIs("transfer")
        => \A p \in ProductIds :
            products[p].warehouseStock + products[p].storeStock
                = PreProduct(p).warehouseStock + PreProduct(p).storeStock

\* C4: per-product serialization. When two mutations of the same product have
\* run side by side, the final stock and cost fields are those of running the
\* two one after the other, in one order or the other.
C4_Serializable ==
    (AllDone /\ Len(epoch.issued) = 2)
        => \/ StockAndCost(products)
                = StockAndCost(serial(epoch.base, epoch.issued, last.at))
           \/ StockAndCost(products)
                = StockAndCost(serial(epoch.base, <<epoch.issued[2], epoch.issued[1]>>, last.at))

\* C5: a transfer, between the two locations, of more than fromLocation holds
\* is rejected, changes neither counter and creates no Transfer record.
C5_TransferInsufficientStock ==
    (/\ LastIs("transfer") /\ Existed(last.req.productId)
     /\ last.req.fromLocation # last.req.toLocation
     /\ last.req.quantity > StockAt(PreProduct(last.req.productId), last.req.fromLocation))
        => /\ Rejected
           /\ products = last.pre
           /\ Len(transfers) = last.preTransfers

\* C6: a sale with a line that asks more than the product's storeStock is
\* rejected and that product's storeStock keeps its prior value.
C6_SaleInsufficientStock ==
    LastIsSale
        => \A i \in 1..Len(last.req.items) :
            LET it == last.req.items[i]
            IN  (Existed(it.productId) /\ it.quantity > PreProduct(it.productId).storeStock)
                    => /\ Rejected
                       /\ products[it.productId].storeStock
                            = PreProduct(it.productId).storeStock

\* C7: a transfer with fromLocation = toLocation is rejected by the server:
\* no Transfer record, no TechnicianActivity, product counters unchanged.
C7_SameLocationRejected ==
    (LastIs("transfer") /\ last.req.fromLocation = last.req.toLocation)
        => /\ Rejected
           /\ Len(transfers) = last.preTransfers
           /\ Len(activities) = Len(last.preActs)
           /\ products = last.pre

\* C8: weighted-average correctness. A purchase of q > 0 at unit cost c on a
\* product holding s0 at current cost c0 (averageCost, else cost, else c)
\* yields averageCost = (s0*c0 + q*c)/(s0+q) when s0 > 0, and c when s0 = 0.
C8_WeightedAverage ==
    (LastIs("updateProductPrice") /\ Existed(last.req.productId))
        => products[last.req.productId].averageCost
            = SpecAverage(PreProduct(last.req.productId), last.req.quantity, last.req.cost)

\* C9: a purchase of q > 0 at unit cost c > 0 into a location of an existing
\* product is accepted, raises that location's counter by q, leaves the other
\* counter, sets cost = c and sets averageCost to the weighted average of the
\* stock held and the purchase.
C9_PurchaseSideEffects ==
    (/\ LastIs("purchase") /\ Existed(PathProduct)
     /\ last.req.quantity > 0 /\ last.req.cost > 0 /\ last.req.location \in Locations)
        => LET p == PathProduct
               q == last.req.quantity
               other == IF last.req.location = "store" THEN "warehouse" ELSE "store"
           IN  /\ last.status = 200
               /\ StockAt(products[p], last.req.location)
                    = StockAt(PreProduct(p), last.req.location) + q
               /\ StockAt(products[p], other) = StockAt(PreProduct(p), other)
               /\ products[p].cost = Num(last.req.cost)
               /\ products[p].averageCost = SpecAverage(PreProduct(p), q, last.req.cost)

\* the last of the lines of the last sale that name product p
LastLine(p) ==
    CHOOSE i \in 1..Len(last.req.items) :
        /\ last.req.items[i].productId = p
        /\ \A j \in (i + 1)..Len(last.req.items) : last.req.items[j].productId # p

\* C10: a committed sale applies each line exactly once: storeStock of a
\* product falls and its totalSold rises by exactly the quantities of its
\* lines, its lastSaleDate is the time at which its last line was committed
\* (the `now` read for that line's update, a time within the call), and its
\* warehouseStock and cost fields are untouched; a product that no line names
\* is left as it was.
C10_SaleAppliedOnce ==
    (LastIsSale /\ ~Rejected)
        => \A p \in ProductIds :
            Existed(p) =>
                IF \E i \in 1..Len(last.req.items) : last.req.items[i].productId = p
                THEN /\ products[p].storeStock
                        = PreProduct(p).storeStock - SumQty(last.req.items, p)
                     /\ products[p].totalSold
                        = PreProduct(p).totalSold + SumQty(last.req.items, p)
                     /\ products[p].lastSaleDate = last.dates[LastLine(p)]
                     /\ last.dates[LastLine(p)] \in last.began..last.at
                     /\ products[p].warehouseStock = PreProduct(p).warehouseStock
                     /\ products[p].cost = PreProduct(p).cost
                     /\ products[p].averageCost = PreProduct(p).averageCost
                ELSE products[p] = PreProduct(p)

\* a sale of two lines of one product has been applied, a day having passed
\* between the two lines: the product is dated by the second
C10_Witness ==
    /\ LastIs("createInvoice") /\ ~Rejected /\ Len(last.req.items) = 2
    /\ \E p \in ProductIds :
        /\ Existed(p)
        /\ \A i \in 1..2 : last.req.items[i].productId = p
        /\ products[p].storeStock = PreProduct(p).storeStock - SumQty(last.req.items, p)
        /\ products[p].totalSold = PreProduct(p).totalSold + SumQty(last.req.items, p)
        /\ last.dates[1] < last.dates[2]
        /\ products[p].lastSaleDate = last.dates[2]

\* C11: a transfer naming a productId that does not exist fails with NotFound
\* and writes nothing: no Transfer record and no TechnicianActivity record is
\* added.
C11_TransferMissingProductFailsClosed ==
    (LastIs("transfer") /\ ~Existed(last.req.productId))
        => /\ last.status = 404
           /\ Len(transfers) = last.preTransfers
           /\ Len(activities) = Len(last.preActs)
           /\ products = last.pre

\* C12: an invoice with a line whose productId names no product fails with
\* NotFound and the whole batch is rejected: storeStock and totalSold of every
\* product are as before the call.
C12_InvoiceMissingProductRejected ==
    (/\ LastIsSale
     /\ \E i \in 1..Len(last.req.items) : ~Existed(last.req.items[i].productId))
        => /\ last.status = 404
           /\ \A p \in ProductIds :
                /\ products[p].storeStock = PreProduct(p).storeStock
                /\ products[p].totalSold = PreProduct(p).totalSold

\* C13: a purchase with quantity <= 0 or unit cost < 0 is rejected as invalid
\* input and leaves the products unchanged; a purchase with quantity > 0 and
\* any unit cost >= 0, zero included, into a location of an existing product
\* is accepted.
C13_PurchaseInputValidation ==
    LastIs("purchase")
        => /\ (last.req.quantity <= 0 \/ last.req.cost < 0)
                => (last.status = 400 /\ products = last.pre)
           /\ (/\ last.req.quantity > 0 /\ last.req.cost >= 0
               /\ last.req.location \in Locations /\ Existed(PathProduct))
                => last.status = 200

\* the last request is a transfer that names a technician and meets every
\* precondition: the product exists, the locations differ and fromLocation
\* holds the quantity
GoodTechTransfer ==
    /\ LastIs("transfer") /\ last.req.technicianName # ""
    /\ Existed(last.req.productId)
    /\ last.req.fromLocation # last.req.toLocation
    /\ last.req.quantity <= StockAt(PreProduct(last.req.productId), last.req.fromLocation)

\* C14: when the technician-activity write of such a transfer fails, the
\* Transfer record is still persisted, the stock move is still applied
\* (source down, destination up by the quantity) and the caller gets a
\* successful result.
C14_ActivityFailureKeepsTransfer ==
    (GoodTechTransfer /\ last.req.fault # "")
        => LET p == last.req.productId
               q == last.req.quantity
           IN  /\ last.status = 200
               /\ Len(transfers) = last.preTransfers + 1
               /\ StockAt(products[p], last.req.fromLocation)
                    = StockAt(PreProduct(p), last.req.fromLocation) - q
               /\ StockAt(products[p], last.req.toLocation)
                    = StockAt(PreProduct(p), last.req.toLocation) + q

\* C15: when the technician-activity write of a transfer fails, the caller
\* gets a degraded success: a successful transfer result that carries a
\* warning.
C15_ActivityFailureSurfaced ==
    (GoodTechTransfer /\ last.req.fault # "")
        => (last.status = 200 /\ "warning" \in DOMAIN last.body)

\* C16: a committed transfer that names a technician adds exactly one
\* TechnicianActivity record, carrying the transfer's technicianName,
\* productId, quantity and id, and leaves the records that existed as they were.
C16_OneActivityPerTransfer ==
    (GoodTechTransfer /\ last.req.fault = "" /\ last.status = 200)
        => /\ Len(activities) = Len(last.preActs) + 1
           /\ SubSeq(activities, 1, Len(last.preActs)) = last.preActs
           /\ LET a == activities[Len(last.preActs) + 1]
              IN  /\ a.technicianName = last.req.technicianName
                  /\ a.productId = last.req.productId
                  /\ a.quantity = last.req.quantity
                  /\ a.transferId = transfers[Len(transfers)].id

\* total stock of a product document
TotalStock(product) == product.warehouseStock + product.storeStock

C18_LowMovingStockExact ==
    LastWas("getLowMovingStock")
        => /\ last.body.result
                = {p \in ProductIds :
                    /\ rows[p].exists
                    /\ TotalStock(rows[p]) > 0
                    /\ (rows[p].lastSaleDate = 0
                        \/ rows[p].lastSaleDate < last.began - last.req.days)}
           /\ \A p \in last.body.result :
                /\ TotalStock(rows[p]) # 0
                /\ ~(rows[p].lastSaleDate # 0
                     /\ rows[p].lastSaleDate >= last.began - last.req.days)

\* a product in stock that was last sold before the window began is in the
\* answer of a call during which a day passed
C18_Witness ==
    /\ LastIs("getLowMovingStock")
    /\ last.at > last.began
    /\ \E p \in ProductIds :
        /\ rows[p].exists /\ TotalStock(rows[p]) > 0
        /\ rows[p].lastSaleDate # 0
        /\ rows[p].lastSaleDate < last.began - last.req.days
        /\ p \in last.body.result

\* the open low_moving_stock alerts of product p in the alert collection AL
OpenAlerts(AL, p) ==
    {i \in 1..Len(AL) :
        AL[i].type = "low_moving_stock" /\ AL[i].productId = p /\ ~AL[i].isRead}

\* C19: alert de-duplication. Whatever alerts have been created and
\* acknowledged, every product has at most one open low_moving_stock alert,
\* and a low_moving_stock alert asked for a product whose alert is still open
\* adds no alert for that product.
C19_OneOpenAlertPerProduct ==
    \A p \in ProductIds :
        /\ Cardinality(OpenAlerts(alerts, p)) <= 1
        /\ (/\ LastWas("createAlert") /\ last.req.productId = p
            /\ last.req.update.type = "low_moving_stock"
            /\ OpenAlerts(last.preAlerts, p) # {})
            => {i \in 1..Len(alerts) : alerts[i].productId = p}
                = {i \in 1..Len(last.preAlerts) : last.preAlerts[i].productId = p}

\* C20: alert lifecycle. A step never removes an alert; an alert that a step
\* adds has isRead = false; an alert that a step changes is changed by an
\* acknowledgement, from isRead = false to isRead = true and in nothing else.
C20_AlertLifecycle ==
    [][/\ Len(alerts') >= Len(alerts)
       /\ \A i \in 1..Len(alerts) :
            alerts'[i] # alerts[i]
                => /\ last'.req.op = "markAlertAsRead"
                   /\ ~alerts[i].isRead
                   /\ alerts'[i] = [alerts[i] EXCEPT !.isRead = TRUE]
       /\ \A i \in (Len(alerts) + 1)..Len(alerts') : ~alerts'[i].isRead]_vars

\* an open alert is acknowledged while an alert acknowledged earlier is there
C20_Witness ==
    /\ LastWas("markAlertAsRead")
    /\ last.req.alertId \in 1..Len(alerts)
    /\ ~last.preAlerts[last.req.alertId].isRead
    /\ alerts[last.req.alertId].isRead
    /\ \E i \in 1..Len(alerts) : i # last.req.alertId /\ last.preAlerts[i].isRead

\* C21: idempotent acknowledgement. Acknowledging an alert that is already
\* read raises no error and leaves the alert store as it was after the first
\* acknowledgement; acknowledging any stored alert twice gives the store that
\* acknowledging it once gives.
C21_AcknowledgeIdempotent ==
    /\ (/\ LastWas("markAlertAsRead")
        /\ last.req.alertId \in 1..Len(last.preAlerts)
        /\ last.preAlerts[last.req.alertId].isRead)
        => (last.status = 200 /\ alerts = last.preAlerts)
    /\ \A i \in 1..Len(alerts) :
        markAlertAsRead(markAlertAsRead(alerts, i), i) = markAlertAsRead(alerts, i)

\* an alert already read is acknowledged again while another alert is open
C21_Witness ==
    /\ LastWas("markAlertAsRead")
    /\ last.req.alertId \in 1..Len(last.preAlerts)
    /\ last.preAlerts[last.req.alertId].isRead
    /\ alerts[last.req.alertId].isRead
    /\ \E i \in 1..Len(alerts) : ~alerts[i].isRead

\* C22: an acknowledgement whose alertId matches no stored alert fails with
\* NotFound (it does not report success) and changes no alert.
C22_AcknowledgeMissingNotFound ==
    (LastWas("markAlertAsRead") /\ last.req.alertId \notin 1..Len(last.preAlerts))
        => (last.status = 404 /\ alerts = last.preAlerts)

\* the fields of the stock record of every product
StockRecord(P) ==
    [p \in ProductIds |->
        <<P[p].warehouseStock, P[p].storeStock, P[p].cost, P[p].averageCost,
          P[p].totalSold, P[p].lastSaleDate>>]

\* C23: exclusive ownership of the stock record. warehouseStock, storeStock,
\* cost, averageCost, totalSold and lastSaleDate of a product change only
\* through a purchase, a transfer or a sale: a generic product update (PUT
\* /api/products/:id, storage.updateProduct) leaves them as they were.
C23_StockRecordOwned ==
    (LastIs("putProduct") \/ LastIs("updateProduct"))
        => StockRecord(products) = StockRecord(last.pre)

\* the current cost of a product at a purchase of unit cost c, as the
\* specification reads it: averageCost, else cost, else c
SpecCurrentCost(product, c) ==
    IF product.averageCost.set THEN product.averageCost
    ELSE IF product.cost.set THEN product.cost
    ELSE Num(c)

\* x lies between the smaller and the larger of a and b, inclusive
Between(x, a, b) ==
    /\ (NumLeq(a, x) \/ NumLeq(b, x))
    /\ (NumLeq(x, a) \/ NumLeq(x, b))

\* C24: averaging bounds. For a product with stock s0 >= 0 and current cost
\* c0 >= 0 and a purchase of q > 0 at unit cost c >= 0, the new
\* weighted-average cost lies between min(c0, c) and max(c0, c), inclusive.
C24_AverageWithinBounds ==
    (/\ (LastIs("updateProductPrice") \/ LastIs("dbUpdateProductPrice"))
     /\ Existed(last.req.productId))
        => Between((IF last.req.sql THEN rows ELSE products)[last.req.productId].averageCost,
                   SpecCurrentCost(PreProduct(last.req.productId), last.req.cost),
                   Num(last.req.cost))

\* averageCost and total stock of every product
AverageAndTotal(P) ==
    [p \in ProductIds |-> <<P[p].averageCost, TotalStock(P[p])>>]

\* C25: sequential purchases commute. The purchase (q1, c1) just applied to a
\* product, followed by any purchase (q2, c2), leaves the averageCost and the
\* total stock that (q2, c2) followed by (q1, c1) leaves, from the same
\* product state.
C25_PurchasesCommute ==
    (LastIs("updateProductPrice") /\ Existed(last.req.productId))
        => \A c2 \in PriceCosts, q2 \in Quantities :
            LET pid == last.req.productId
            IN  AverageAndTotal(updateProductPrice(products, pid, c2, q2))
                = AverageAndTotal(
                    updateProductPrice(updateProductPrice(last.pre, pid, c2, q2),
                                       pid, last.req.cost, last.req.quantity))

\* C26: a transfer is not a valuation event. Every step of a transfer leaves
\* cost, averageCost, totalSold, lastSaleDate and minStockLevel of every
\* product as they were; only warehouseStock and storeStock may change.
C26_TransferFrame ==
    [][(\E w \in Workers : reqs[w].req.op = "transfer" /\ reqs'[w].pc # reqs[w].pc)
        => \A p \in ProductIds :
            /\ products'[p].cost = products[p].cost
            /\ products'[p].averageCost = products[p].averageCost
            /\ products'[p].totalSold = products[p].totalSold
            /\ products'[p].lastSaleDate = products[p].lastSaleDate
            /\ products'[p].minStockLevel = products[p].minStockLevel
            /\ products'[p].exists = products[p].exists]_vars

\* a transfer has moved stock of a product that has a cost and has been sold
C26_Witness ==
    /\ LastIs("transfer") /\ last.status = 200
    /\ \E p \in ProductIds :
        /\ products[p].storeStock # PreProduct(p).storeStock
        /\ products[p].warehouseStock # PreProduct(p).warehouseStock
        /\ products[p].totalSold > 0 /\ products[p].lastSaleDate > 0
        /\ products[p].cost.set /\ products[p].averageCost.set

\* C27: totalSold is monotonic. Across every sequence of purchases, transfers
\* and sales, totalSold of a product is always >= 0 and no step lowers it.
C27_TotalSoldMonotonic ==
    /\ [](\A p \in ProductIds : products[p].totalSold >= 0)
    /\ [][\A p \in ProductIds :
            products[p].exists => products'[p].totalSold >= products[p].totalSold]_vars

\* C28: stock ledger balance. Each successful request keeps the books of
\* every product: a purchase raises warehouseStock + storeStock by its
\* quantity, a transfer leaves the sum, a sale lowers the sum and raises
\* totalSold by the quantity sold; so after any sequence of them the sum is
\* the initial total plus the purchased minus the sold quantities, and the
\* rise of totalSold is the sold quantity.
C28_LedgerBalance ==
    \A p \in ProductIds :
        Existed(p) =>
            /\ (LastIs("purchase") /\ last.status = 200 /\ PathProduct = p)
                => TotalStock(products[p]) = TotalStock(PreProduct(p)) + last.req.quantity
            /\ (LastIs("transfer") /\ last.status = 200)
                => TotalStock(products[p]) = TotalStock(PreProduct(p))
            /\ (LastIs("createInvoice") /\ last.status = 200)
                => /\ TotalStock(products[p])
                        = TotalStock(PreProduct(p)) - SumQty(last.req.items, p)
                   /\ products[p].totalSold
                        = PreProduct(p).totalSold + SumQty(last.req.items, p)

\* total quantity the calls rs ask of product p
RECURSIVE SumIssued(_, _)
SumIssued(rs, p) ==
    IF rs = <<>> THEN 0 ELSE SumQty(Head(rs).items, p) + SumIssued(Tail(rs), p)

\* C29: storage-level sale deduction is interleaving-safe. When the calls of
\* MongoDBStorage.createInvoice that ran side by side have all returned,
\* storeStock of every product is its value before the calls minus the sum of
\* all their quantities of the product, and totalSold is its value before
\* plus that sum: no decrement is lost, whatever the interleaving.
C29_StorageSaleInterleavingSafe ==
    (AllDone /\ \A i \in 1..Len(epoch.issued) : epoch.issued[i].op = "createInvoice")
        => \A p \in ProductIds :
            epoch.base[p].exists =>
                /\ products[p].storeStock
                    = epoch.base[p].storeStock - SumIssued(epoch.issued, p)
                /\ products[p].totalSold
                    = epoch.base[p].totalSold + SumIssued(epoch.issued, p)

\* both calls have returned, and the second call ran between the two lines of
\* the first: its update found the product as the first line of the first
\* call left it, and the second line of the first call found it as the
\* second call left it
C29_Witness ==
    /\ AllDone /\ Len(epoch.issued) = 2 /\ Len(epoch.log) = 3
    /\ \E p \in ProductIds :
        /\ Len(epoch.issued[1].items) = 2 /\ Len(epoch.issued[2].items) = 1
        /\ \A i \in 1..2 : epoch.issued[1].items[i].productId = p
        /\ epoch.issued[2].items[1].productId = p
        /\ epoch.log[1] = <<1, epoch.base[p].storeStock>>
        /\ epoch.log[2] = <<2, epoch.base[p].storeStock - epoch.issued[1].items[1].quantity>>
        /\ epoch.log[3] = <<1, epoch.log[2][2] - epoch.issued[2].items[1].quantity>>
        /\ products[p].storeStock = epoch.base[p].storeStock - SumIssued(epoch.issued, p)

\* C30: the transfer ledger reconciles with the stock. In every reachable
\* state each persisted Transfer record with status completed names an
\* existing product, and the request that persisted it has taken its full
\* quantity from fromLocation and added it to toLocation; so the change of
\* storeStock owed to transfers is the sum of the warehouse->store quantities
\* minus the sum of the store->warehouse quantities of the product's records.
C30_TransferLedgerReconciles ==
    /\ \A i \in 1..Len(transfers) :
        (Stored(transfers, i) /\ transfers[i].status = "completed")
            => getProduct(products, transfers[i].productId).exists
    /\ (/\ LastIs("transfer") /\ Len(transfers) = last.preTransfers + 1
        /\ transfers[Len(transfers)].status = "completed")
        => LET t == transfers[Len(transfers)]
               p == t.productId
           IN  /\ Existed(p)
               /\ StockAt(products[p], t.fromLocation)
                    = StockAt(PreProduct(p), t.fromLocation) - t.quantity
               /\ StockAt(products[p], t.toLocation)
                    = StockAt(PreProduct(p), t.toLocation) + t.quantity

====
